---- MODULE Spec2Model ----
(***************************************************************************)
(* A model of the PsyLayout render engine (design-manager.tsx):            *)
(* breakpoint value selection, the width-rule matcher, grid snapping, the  *)
(* Locator geometry resolver, the Section validation engine, the z-order   *)
(* resolver and the Section resolution pass.                               *)
(*                                                                         *)
(* JavaScript values are tagged records, so that `undefined`, `null`,     *)
(* numbers, strings, booleans, arrays and objects stay distinguishable.    *)
(* An object is a total function over Keys; an absent property reads as    *)
(* Undefined, which is what `obj[k]` yields in the source.                 *)
(***************************************************************************)
EXTENDS Integers, Sequences, FiniteSets, TLC

VARIABLES
  pc,             \* position of the host: which call or pass step comes next
  call,           \* the arguments of the utility invocation under way
  ret,            \* the value that invocation returned
  section,        \* the props of the mounted Section, children included
  viewportWidth,  \* w of DesignManagerProvider
  internalPage,   \* internalPage of Section
  events,         \* the notifications of the current resolution pass
  queue,          \* the children React has still to render in this pass
  emitted,        \* the Locator elements rendered in this pass
  dragging,       \* dragging of Section
  dragStartX,     \* dragStartX of Section
  dragDeltaX,     \* dragDeltaX of Section
  timers          \* the live setInterval timers, each with its closure

callVars == <<call, ret>>
pagingVars == <<dragging, dragStartX, dragDeltaX, timers>>
passVars == <<section, viewportWidth, internalPage, events, queue, emitted,
              pagingVars>>
vars == <<pc, call, ret, section, viewportWidth, internalPage, events, queue,
          emitted, dragging, dragStartX, dragDeltaX, timers>>

(***************************************************************************)
(* Bounds of the model.                                                    *)
(***************************************************************************)
MaxNum == 1
MaxLen == 3      \* longest free-form condition string
MaxN == 12       \* largest operand of a well-formed condition
MaxWidth == 14   \* largest viewport width reported
MaxCoord == 12   \* largest logical coordinate snapped on its own
MaxGrid == 5     \* largest snap grid
MaxThreshold == 2 \* largest soft-snap threshold
MaxValidated == 3 \* most children of a validated Section
MaxChildren == 3 \* most children of a mounted Section
MaxPaged == 7    \* most children of a paged Section
MaxPage == 5     \* largest page index a host supplies
MaxViewport == 1295 \* largest window.innerWidth reported
MaxRules == 2    \* most rules of a Locator

(***************************************************************************)
(* JavaScript values.                                                      *)
(***************************************************************************)
Undefined == [t |-> "undefined"]
Null == [t |-> "null"]
\* a number is the rational n / d, d > 0, in lowest terms
Num(n) == [t |-> "number", n |-> n, d |-> 1]
Str(s) == [t |-> "string", s |-> s]
Bool(b) == [t |-> "boolean", b |-> b]
Arr(a) == [t |-> "array", a |-> a]
Obj(f) == [t |-> "object", o |-> f]

\* no Section is mounted: the utility functions are called on their own
NoPass ==
  /\ section = Undefined
  /\ viewportWidth = 0
  /\ internalPage = 0
  /\ events = <<>>
  /\ queue = <<>>
  /\ emitted = <<>>
  /\ dragging = FALSE
  /\ dragStartX = 0
  /\ dragDeltaX = 0
  /\ timers = {}

\* BreakpointKey
Tiers == {"base", "sm", "md", "lg", "xl"}
RectKeys == {"left", "top", "width", "height"}
LogicalRectKeys == {"x", "y", "w", "h"}
Keys == Tiers \cup RectKeys \cup LogicalRectKeys

\* typeof value === "object": null and arrays included, as in JavaScript
TypeofObject(v) == v.t \in {"object", "null", "array"}

\* obj[k]
Get(v, k) == v.o[k]

\* a ?? b
Nullish(a, b) == IF a = Undefined \/ a = Null THEN b ELSE a

\* the object literal with the given properties and no other
ObjectOf(props) ==
  Obj([k \in Keys |-> IF k \in DOMAIN props THEN props[k] ELSE Undefined])

\* { left, top, width, height }
RectOf(l, tp, w, h) ==
  ObjectOf([left |-> l, top |-> tp, width |-> w, height |-> h])

\* { x, y, w, h }
LogicalRectOf(x, y, w, h) ==
  ObjectOf([x |-> Num(x), y |-> Num(y), w |-> Num(w), h |-> Num(h)])

\* a || b : the falsy values of JavaScript fall through to b
Falsy(a) ==
  \/ a \in {Undefined, Null, Bool(FALSE), Str("")}
  \/ a.t = "number" /\ a.n = 0

pickResponsive_or(value, bp) ==
  IF value = Undefined THEN Undefined
  ELSE IF ~TypeofObject(value) \/ value = Null \/ value.t = "array" THEN value
  ELSE IF Falsy(Get(value, bp)) THEN Get(value, "base") ELSE Get(value, bp)

pickResponsive(value, bp) ==
  IF value = Undefined THEN Undefined
  ELSE IF ~TypeofObject(value) \/ value = Null \/ value.t = "array" THEN value
  ELSE Nullish(Get(value, bp), Get(value, "base"))

(***************************************************************************)
(* pickResponsive applied to every kind of value a Responsive<T> prop can  *)
(* carry.                                                                  *)
(***************************************************************************)
Numbers == {Num(n) : n \in 0..MaxNum}
Strings == {Str(""), Str("a")}
Booleans == {Bool(FALSE), Bool(TRUE)}
Scalars == Numbers \cup Strings \cup Booleans
SampleRect == RectOf(Num(0), Num(0), Num(10), Str("50%"))
SampleLogicalRect == LogicalRectOf(0, 0, 100, 100)
Structs == {SampleRect, SampleLogicalRect}

\* Partial<Record<BreakpointKey, T>> for the values T of one type
TierMaps(T) ==
  {Obj([k \in Keys |-> IF k \in Tiers THEN f[k] ELSE Undefined]) :
     f \in [Tiers -> T \cup {Undefined}]}

PickValues ==
  {Undefined, Null, Arr(<<>>), Arr(<<Num(1)>>)} \cup Scalars \cup Structs
    \cup TierMaps(Numbers) \cup TierMaps(Strings) \cup TierMaps(Booleans)
    \cup TierMaps(Structs)

InitPick ==
  /\ pc = "call"
  /\ call \in [fn : {"pickResponsive"}, value : PickValues, bp : Tiers]
  /\ ret = Undefined
  /\ NoPass

CallPickResponsive ==
  /\ pc = "call"
  /\ call.fn = "pickResponsive"
  /\ ret' = pickResponsive(call.value, call.bp)
  /\ pc' = "returned"
  /\ UNCHANGED <<call, passVars>>

NextPick == CallPickResponsive

SpecPick == InitPick /\ [][NextPick]_vars

\* some tier key of the object is set
IsTierKeyed(v) == v.t = "object" /\ \E k \in Tiers : Get(v, k) # Undefined

\* an object with properties of its own, none of them a tier
IsPlainStruct(v) ==
  /\ v.t = "object"
  /\ \A k \in Tiers : Get(v, k) = Undefined
  /\ \E k \in Keys \ Tiers : Get(v, k) # Undefined

Returned(fn) == pc = "returned" /\ call.fn = fn

\* C1: pickResponsive returns its input unchanged, at every tier, for every
\* value that is not a tier-keyed map: scalars, null, arrays and structured
\* values given directly (a Rect, a LogicalRect).
C1_NotTierKeyedUnchanged ==
  (Returned("pickResponsive")
     /\ (~TypeofObject(call.value) \/ call.value \in {Null}
           \/ call.value.t = "array" \/ IsPlainStruct(call.value)))
    => ret = call.value

\* C2: for a tier-keyed V and a tier bp, pickResponsive(V, bp) is V[bp] when
\* V[bp] is defined and V.base otherwise; with V.base defined the result is
\* never undefined.
C2_TierOrBase ==
  (Returned("pickResponsive") /\ IsTierKeyed(call.value)) =>
    /\ Get(call.value, call.bp) # Undefined => ret = Get(call.value, call.bp)
    /\ Get(call.value, call.bp) = Undefined => ret = Get(call.value, "base")
    /\ Get(call.value, "base") # Undefined => ret # Undefined

\* a tier-keyed value without the asked tier fell back to its base
C2_Witness ==
  /\ Returned("pickResponsive")
  /\ IsTierKeyed(call.value)
  /\ call.bp = "md"
  /\ Get(call.value, "md") = Undefined
  /\ Get(call.value, "base") = Num(0)
  /\ Get(call.value, "xl") = Num(1)
  /\ ret = Num(0)

(***************************************************************************)
(* matchRule.  A condition string is a sequence of one-character strings.  *)
(***************************************************************************)
DigitChars == <<"0", "1", "2", "3", "4", "5", "6", "7", "8", "9">>

IsDigit(c) == \E i \in 1..10 : DigitChars[i] = c

DigitValue(c) == (CHOOSE i \in 1..10 : DigitChars[i] = c) - 1

\* \s of the regular expression, and the white space trim() strips
IsSpace(c) == c = " "

RECURSIVE TrimStart(_)
TrimStart(s) ==
  IF s # <<>> /\ IsSpace(Head(s)) THEN TrimStart(Tail(s)) ELSE s

RECURSIVE TrimEnd(_)
TrimEnd(s) ==
  IF s # <<>> /\ IsSpace(s[Len(s)])
    THEN TrimEnd(SubSeq(s, 1, Len(s) - 1))
    ELSE s

\* String.prototype.trim
Trim(s) == TrimEnd(TrimStart(s))

AllDigits(s) == s # <<>> /\ \A i \in 1..Len(s) : IsDigit(s[i])

RECURSIVE DecimalValue(_)
DecimalValue(s) ==
  IF s = <<>> THEN 0
  ELSE DecimalValue(SubSeq(s, 1, Len(s) - 1)) * 10 + DigitValue(s[Len(s)])

NaN == [nan |-> TRUE, v |-> 0]

\* Number(string): white space is trimmed, the empty string is 0, an
\* optionally signed run of digits is its value, anything else is NaN.
\* (The strings of the model hold no ".", "e", "x" or "Infinity".)
ToNumber(s) ==
  LET t == Trim(s) IN
    IF t = <<>> THEN [nan |-> FALSE, v |-> 0]
    ELSE IF AllDigits(t) THEN [nan |-> FALSE, v |-> DecimalValue(t)]
    ELSE IF Head(t) \in {"-", "+"} /\ AllDigits(Tail(t))
      THEN [nan |-> FALSE,
            v |-> IF Head(t) = "-" THEN 0 - DecimalValue(Tail(t))
                  ELSE DecimalValue(Tail(t))]
    ELSE NaN

\* width < v and width > v: a comparison with NaN is false
LessThan(width, v) == ~v.nan /\ width < v.v
GreaterThan(width, v) == ~v.nan /\ width > v.v

RECURSIVE LeadingDigits(_)
LeadingDigits(s) ==
  IF s # <<>> /\ IsDigit(Head(s)) THEN 1 + LeadingDigits(Tail(s)) ELSE 0

Drop(s, n) == SubSeq(s, n + 1, Len(s))

\* s.match(/^(\d+)\s*-\s*(\d+)$/)
MatchRange(s) ==
  LET n1 == LeadingDigits(s)
      r1 == TrimStart(Drop(s, n1))
      r2 == IF r1 # <<>> THEN TrimStart(Tail(r1)) ELSE <<>>
  IN IF n1 > 0 /\ r1 # <<>> /\ Head(r1) = "-" /\ AllDigits(r2)
       THEN [ok |-> TRUE, min |-> DecimalValue(SubSeq(s, 1, n1)),
             max |-> DecimalValue(r2)]
       ELSE [ok |-> FALSE, min |-> 0, max |-> 0]

\* the strict comparisons turned inclusive
matchRule_inclusive(when, width) ==
  LET s == Trim(when) IN
    IF s = <<>> THEN FALSE
    ELSE IF Head(s) = "<" THEN width <= ToNumber(Tail(s)).v
    ELSE IF Head(s) = ">" THEN width >= ToNumber(Tail(s)).v
    ELSE LET m == MatchRange(s) IN m.ok /\ width >= m.min /\ width <= m.max

matchRule(when, width) ==
  LET s == Trim(when) IN
    IF s = <<>> THEN FALSE
    ELSE IF Head(s) = "<" THEN LessThan(width, ToNumber(Tail(s)))
    ELSE IF Head(s) = ">" THEN GreaterThan(width, ToNumber(Tail(s)))
    ELSE LET m == MatchRange(s) IN
           IF m.ok THEN width >= m.min /\ width <= m.max ELSE FALSE

\* the decimal numeral of n
RECURSIVE DecimalString(_)
DecimalString(n) ==
  IF n < 10 THEN <<DigitChars[n + 1]>>
  ELSE DecimalString(n \div 10) \o <<DigitChars[(n % 10) + 1]>>

LtCond(n) == <<"<">> \o DecimalString(n)
GtCond(n) == <<">">> \o DecimalString(n)
RangeCond(n, k) == DecimalString(n) \o <<"-">> \o DecimalString(k)

\* the conditions of the three forms, and every string over RuleChars
RuleChars == {"<", ">", "-", "=", " ", "0", "1", "a"}
FreeConds == UNION {[1..n -> RuleChars] : n \in 0..MaxLen}
FormConds ==
  {LtCond(n) : n \in 0..MaxN} \cup {GtCond(n) : n \in 0..MaxN}
    \cup {RangeCond(n, k) : n, k \in 0..MaxN}

InitRule ==
  /\ pc = "call"
  /\ call \in [fn : {"matchRule"}, when : FormConds \cup FreeConds,
               width : 0..MaxWidth]
  /\ ret = Undefined
  /\ NoPass

CallMatchRule ==
  /\ pc = "call"
  /\ call.fn = "matchRule"
  /\ ret' = matchRule(call.when, call.width)
  /\ pc' = "returned"
  /\ UNCHANGED <<call, passVars>>

NextRule == CallMatchRule

SpecRule == InitRule /\ [][NextRule]_vars

\* C3: matchRule("<N", w) iff w < N, matchRule(">N", w) iff w > N,
\* matchRule("N-M", w) iff N <= w <= M, for non-negative integers N, M; and
\* the five examples of the specification.
C3_ThreeForms ==
  /\ matchRule(<<"<", "6", "0", "0">>, 599) = TRUE
  /\ matchRule(<<"<", "6", "0", "0">>, 600) = FALSE
  /\ matchRule(<<">", "1", "2", "0", "0">>, 1201) = TRUE
  /\ matchRule(<<"6", "0", "0", "-", "1", "0", "2", "4">>, 1024) = TRUE
  /\ matchRule(<<"6", "0", "0", "-", "1", "0", "2", "4">>, 1025) = FALSE
  /\ Returned("matchRule") =>
       /\ \A n \in 0..MaxN :
            /\ call.when = LtCond(n) => ret = (call.width < n)
            /\ call.when = GtCond(n) => ret = (call.width > n)
       /\ \A n, k \in 0..MaxN :
            call.when = RangeCond(n, k)
              => ret = (n <= call.width /\ call.width <= k)

\* each form, evaluated at one of its own bounds
C3_Witness ==
  /\ Returned("matchRule")
  /\ \/ call.when = LtCond(12) /\ call.width = 12 /\ ret = FALSE
     \/ call.when = GtCond(7) /\ call.width = 7 /\ ret = FALSE
     \/ call.when = RangeCond(3, 11) /\ call.width = 11 /\ ret = TRUE

\* a condition of one of the three forms: "<" or ">" followed by a number,
\* or two runs of digits around "-" (white space allowed where the code
\* allows it)
HasOperand(s) == Trim(s) # <<>> /\ ~ToNumber(s).nan
IsThreeForm(when) ==
  LET s == Trim(when) IN
    /\ s # <<>>
    /\ \/ Head(s) \in {"<", ">"} /\ HasOperand(Tail(s))
       \/ MatchRange(s).ok

\* C4: a condition that is not of one of the three forms (empty, a bare "<"
\* or ">", "<=N", a non-numeric operand, other text) matches no width.
C4_MalformedNeverMatches ==
  (Returned("matchRule") /\ ~IsThreeForm(call.when)) => ret = FALSE

(***************************************************************************)
(* Grid snapping (the snapValue closure of Locator).                       *)
(***************************************************************************)
Abs(n) == IF n < 0 THEN 0 - n ELSE n

\* Math.round(num / den) for den > 0: the nearest integer, a tie going up
MathRound(num, den) == (2 * num + den) \div (2 * den)

\* the threshold test made strict
snapValue_strictThreshold(val, grid, mode, threshold) ==
  LET rounded == MathRound(val, grid) * grid IN
    IF mode = "soft"
      THEN IF Abs(rounded - val) < threshold THEN rounded ELSE val
      ELSE rounded

snapValue(val, grid, mode, threshold) ==
  LET rounded == MathRound(val, grid) * grid IN
    IF mode = "soft"
      THEN IF Abs(rounded - val) <= threshold THEN rounded ELSE val
      ELSE rounded

InitSnap ==
  /\ pc = "call"
  /\ call \in [fn : {"snapValue"}, val : (0 - MaxCoord)..MaxCoord,
               grid : 1..MaxGrid, mode : {"strict", "soft"},
               threshold : 0..MaxThreshold]
  /\ ret = Undefined
  /\ NoPass

CallSnapValue ==
  /\ pc = "call"
  /\ call.fn = "snapValue"
  /\ ret' = snapValue(call.val, call.grid, call.mode, call.threshold)
  /\ pc' = "returned"
  /\ UNCHANGED <<call, passVars>>

NextSnap == CallSnapValue

SpecSnap == InitSnap /\ [][NextSnap]_vars

\* r is round(v / g) * g: the multiple of g nearest to v, the upper one of
\* two equally near
IsRounded(r, v, g) == r % g = 0 /\ 2 * (r - v) <= g /\ 2 * (v - r) < g

\* C5: with rounded = round(v / g) * g, strict mode yields rounded; soft mode
\* yields rounded when |rounded - v| <= threshold and v otherwise; and the
\* three examples of the specification.
C5_SnapValue ==
  /\ snapValue(17, 10, "strict", 0) = 20
  /\ snapValue(17, 10, "soft", 2) = 17
  /\ snapValue(18, 10, "soft", 2) = 20
  /\ Returned("snapValue") =>
       \E r \in (call.val - call.grid)..(call.val + call.grid) :
         /\ IsRounded(r, call.val, call.grid)
         /\ call.mode = "strict" => ret = r
         /\ call.mode = "soft" =>
              ret = IF Abs(r - call.val) <= call.threshold THEN r
                    ELSE call.val

\* a soft snap exactly at its threshold, and one just beyond it
C5_Witness ==
  /\ Returned("snapValue")
  /\ call.mode = "soft"
  /\ call.grid = 5
  /\ call.threshold = 2
  /\ \/ call.val = 7 /\ ret = 5
     \/ call.val = 8 /\ ret = 10

(***************************************************************************)
(* Numbers and strings the resolver computes.                              *)
(***************************************************************************)
RECURSIVE GCD(_, _)
GCD(a, b) == IF b = 0 THEN a ELSE GCD(b, a % b)

\* the number num / den (den # 0)
Rat(num, den) ==
  LET g == GCD(Abs(num), Abs(den))
      sg == IF den < 0 THEN 0 - 1 ELSE 1
  IN [t |-> "number", n |-> (sg * num) \div g, d |-> (sg * den) \div g]

\* a / b and a * b on numbers
NumDiv(a, b) == Rat(a.n * b.d, a.d * b.n)
NumMul(a, b) == Rat(a.n * b.n, a.d * b.d)

\* the template strings `${v}px` and `${v}%` of a number v.  The quotient
\* is exact: the rounding of IEEE doubles is not modelled.
PxString(v) == [t |-> "string", s |-> "px", n |-> v.n, d |-> v.d]
PctString(v) == [t |-> "string", s |-> "%", n |-> v.n, d |-> v.d]

\* `${(a / b) * 100}%`
Percent(a, b) == PctString(Rat(a * 100, b))

Truthy(v) == ~Falsy(v)

normalizeDim(val) ==
  IF val = Undefined \/ val = Null THEN Undefined
  ELSE IF val.t = "number" THEN PxString(val) ELSE val

resolveVisibility(visible, bp) ==
  IF visible = Undefined THEN TRUE
  ELSE IF visible.t = "boolean" THEN visible.b
  ELSE LET v == pickResponsive(visible, bp) IN
         IF v = Undefined THEN TRUE ELSE Truthy(v)

normalizeSnapConfig(snap) ==
  IF Falsy(snap) THEN Undefined
  ELSE IF snap.t = "number"
    THEN [t |-> "object", grid |-> snap, mode |-> Str("strict"),
          axes |-> Str("both"), threshold |-> Num(0)]
  ELSE [t |-> "object", grid |-> snap.grid,
        mode |-> Nullish(snap.mode, Str("strict")),
        axes |-> Nullish(snap.axes, Str("both")),
        threshold |-> Nullish(snap.threshold, Num(0))]

\* SnapConfig { grid, mode?, axes?, threshold? }
SnapConfigOf(grid, mode, axes, threshold) ==
  [t |-> "object", grid |-> grid, mode |-> mode, axes |-> axes,
   threshold |-> threshold]

\* LogicalSize { width, height }
LogicalSizeOf(w, h) == [t |-> "object", width |-> w, height |-> h]

(***************************************************************************)
(* Locator.  props: id, rect, logicalRect, zIndex, hidden, order, offsetX, *)
(* offsetY, flex, alignSelf, constraints, rules, style.  ctx: what the     *)
(* contexts give (bp, width, logicalSize, snap).                           *)
(***************************************************************************)
ConstraintKeys ==
  {"centerX", "centerY", "pinLeft", "pinRight", "pinTop", "pinBottom",
   "keepAspectRatio", "lockX", "lockY"}

\* constraints?.k
Constraint(props, k) ==
  IF props.constraints = Undefined THEN Undefined ELSE props.constraints[k]

NoConstraints == Undefined

\* LayoutRule
LayoutRuleOf(when, hidden, offsetX, offsetY, zIndex) ==
  [when |-> when, hidden |-> hidden, offsetX |-> offsetX,
   offsetY |-> offsetY, zIndex |-> zIndex]

\* the loop over props.rules: per field, the last matching rule that sets it
RECURSIVE applyLocatorRules(_, _, _)
applyLocatorRules(rules, width, acc) ==
  IF rules = <<>> THEN acc
  ELSE LET rule == Head(rules)
           hit == matchRule(rule.when, width)
           next ==
             IF ~hit THEN acc
             ELSE [finalVisible |->
                     IF rule.hidden # Undefined THEN ~Truthy(rule.hidden)
                     ELSE acc.finalVisible,
                   ruleOffsetX |->
                     IF rule.offsetX # Undefined THEN rule.offsetX
                     ELSE acc.ruleOffsetX,
                   ruleOffsetY |->
                     IF rule.offsetY # Undefined THEN rule.offsetY
                     ELSE acc.ruleOffsetY,
                   ruleZIndex |->
                     IF rule.zIndex # Undefined THEN rule.zIndex
                     ELSE acc.ruleZIndex]
       IN applyLocatorRules(Tail(rules), width, next)

LocatorRules(props, ctx) ==
  applyLocatorRules(props.rules, ctx.width,
    [finalVisible |-> resolveVisibility(props.hidden, ctx.bp),
     ruleOffsetX |-> Undefined, ruleOffsetY |-> Undefined,
     ruleZIndex |-> Undefined])

\* lr: the logicalRect at the breakpoint
LocatorLogicalRect(props, ctx) ==
  IF Truthy(props.logicalRect)
    THEN pickResponsive(props.logicalRect, ctx.bp)
    ELSE Undefined

\* x, y, w, h after the snap of the Section, if it has one
SnappedLogicalRect(lr, snap) ==
  LET x == Get(lr, "x").n
      y == Get(lr, "y").n
      w == Get(lr, "w").n
      h == Get(lr, "h").n
  IN IF Truthy(snap) /\ snap.grid.n > 0
       THEN LET grid == snap.grid.n
                mode == Nullish(snap.mode, Str("strict")).s
                axes == Nullish(snap.axes, Str("both")).s
                threshold == Nullish(snap.threshold, Num(0)).n
                onX == axes = "x" \/ axes = "both"
                onY == axes = "y" \/ axes = "both"
            IN [x |-> IF onX THEN snapValue(x, grid, mode, threshold) ELSE x,
                w |-> IF onX THEN snapValue(w, grid, mode, threshold) ELSE w,
                y |-> IF onY THEN snapValue(y, grid, mode, threshold) ELSE y,
                h |-> IF onY THEN snapValue(h, grid, mode, threshold) ELSE h]
       ELSE [x |-> x, y |-> y, w |-> w, h |-> h]

EmptyObject == ObjectOf(<<>>)

\* finalRect before the constraints
LocatorFinalRect(props, ctx) ==
  LET lr == LocatorLogicalRect(props, ctx) IN
    IF Truthy(ctx.logicalSize) /\ Truthy(lr)
      THEN LET b == SnappedLogicalRect(lr, ctx.snap)
               LW == ctx.logicalSize.width
               LH == ctx.logicalSize.height
           IN RectOf(Percent(b.x, LW), Percent(b.y, LH),
                     Percent(b.w, LW), Percent(b.h, LH))
      ELSE Nullish(pickResponsive(Nullish(props.rect, EmptyObject), ctx.bp),
                   EmptyObject)

\* constraints.keepAspectRatio: the one missing bare-number side is derived
keepAspectRatio(finalRect, props) ==
  LET ratio == Constraint(props, "keepAspectRatio")
      wVal == Get(finalRect, "width")
      hVal == Get(finalRect, "height")
  IN IF ~Truthy(ratio) THEN finalRect
     ELSE IF wVal.t = "number" /\ hVal.t # "number"
       THEN Obj([finalRect.o EXCEPT !["height"] = NumDiv(wVal, ratio)])
     ELSE IF hVal.t = "number" /\ wVal.t # "number"
       THEN Obj([finalRect.o EXCEPT !["width"] = NumMul(hVal, ratio)])
     ELSE finalRect

StyleKeys ==
  {"order", "flex", "alignSelf", "position", "left", "top", "width",
   "height", "zIndex", "pointerEvents", "right", "bottom", "transform",
   "opacity"}

\* a style object with the given properties and no other
StyleOf(props) ==
  [k \in StyleKeys |-> IF k \in DOMAIN props THEN props[k] ELSE Undefined]

\* { ...a, ...b } for style objects whose set properties are defined
Spread(a, b) == [k \in StyleKeys |-> IF b[k] # Undefined THEN b[k] ELSE a[k]]

\* LocatorOffset with a number always in pixels
LocatorOffset_px(effective, logicalSize, extent) ==
  IF effective.t = "number" THEN PxString(effective)
  ELSE IF effective.t = "string" THEN effective
  ELSE Undefined

\* ox, oy: the offset of one axis as a CSS length
LocatorOffset(effective, logicalSize, extent) ==
  IF effective.t = "number"
    THEN IF Truthy(logicalSize)
           THEN PctString(Rat(effective.n * 100, effective.d * extent))
           ELSE PxString(effective)
  ELSE IF effective.t = "string" THEN effective
  ELSE Undefined

\* `translate(${ox ?? "0"}, ${oy ?? "0"})`
TranslateString(ox, oy) ==
  [t |-> "string", s |-> "translate", x |-> Nullish(ox, Str("0")),
   y |-> Nullish(oy, Str("0"))]

\* [userTransform, translate].filter(Boolean).join(" ") || undefined
JoinTransforms(userTransform, translate) ==
  LET parts == SelectSeq(<<userTransform, translate>>, Truthy) IN
    IF parts = <<>> THEN Undefined
    ELSE IF Len(parts) = 1 THEN parts[1]
    ELSE [t |-> "string", s |-> "join", a |-> parts[1], b |-> parts[2]]

\* the style of the <div> a Locator returns, given the outcome of its rules
LocatorStyle(props, ctx, rs) ==
  LET r == keepAspectRatio(LocatorFinalRect(props, ctx), props)
      positioned == \E k \in RectKeys : Get(r, k) # Undefined
      absStyle ==
        StyleOf([position |-> IF positioned THEN Str("absolute")
                              ELSE Undefined,
                 left |-> normalizeDim(Get(r, "left")),
                 top |-> normalizeDim(Get(r, "top")),
                 width |-> normalizeDim(Get(r, "width")),
                 height |-> normalizeDim(Get(r, "height")),
                 zIndex |-> Nullish(rs.ruleZIndex,
                                    pickResponsive(props.zIndex, ctx.bp)),
                 pointerEvents |-> Str("auto")])
      flowStyle ==
        StyleOf([order |-> IF props.order = Undefined THEN Num(0)
                           ELSE props.order,
                 flex |-> pickResponsive(props.flex, ctx.bp),
                 alignSelf |-> pickResponsive(props.alignSelf, ctx.bp)])
      rawOx == Nullish(rs.ruleOffsetX, pickResponsive(props.offsetX, ctx.bp))
      rawOy == Nullish(rs.ruleOffsetY, pickResponsive(props.offsetY, ctx.bp))
      effectiveOx ==
        IF Truthy(Constraint(props, "lockX")) THEN Undefined ELSE rawOx
      effectiveOy ==
        IF Truthy(Constraint(props, "lockY")) THEN Undefined ELSE rawOy
      ox == LocatorOffset(effectiveOx, ctx.logicalSize,
              IF Truthy(ctx.logicalSize) THEN ctx.logicalSize.width ELSE 1)
      oy == LocatorOffset(effectiveOy, ctx.logicalSize,
              IF Truthy(ctx.logicalSize) THEN ctx.logicalSize.height ELSE 1)
      userStyle == IF props.style = Undefined THEN StyleOf(<<>>)
                   ELSE props.style
      translate == IF Truthy(ox) \/ Truthy(oy) THEN TranslateString(ox, oy)
                   ELSE Undefined
      on(k) == Truthy(Constraint(props, k))
      constrain == props.constraints # Undefined /\ positioned
      pinned ==
        IF ~constrain THEN absStyle
        ELSE [absStyle EXCEPT
               !["left"] =
                 IF on("pinLeft")
                   THEN normalizeDim(Nullish(Get(r, "left"), Num(0)))
                 ELSE IF on("centerX") THEN Str("50%") ELSE @,
               !["top"] =
                 IF on("pinTop")
                   THEN normalizeDim(Nullish(Get(r, "top"), Num(0)))
                 ELSE IF on("centerY") THEN Str("50%") ELSE @,
               !["right"] = IF on("pinRight") THEN Num(0) ELSE @,
               !["bottom"] = IF on("pinBottom") THEN Num(0) ELSE @]
      finalTransform == JoinTransforms(userStyle["transform"], translate)
  IN [Spread(Spread(flowStyle, pinned), userStyle)
        EXCEPT !["transform"] = finalTransform]

\* what one call of Locator yields: null when it is not visible, else the
\* element with its resolved style, and the onLocatorRender notification
Locator(props, ctx) ==
  LET rs == LocatorRules(props, ctx) IN
    IF ~rs.finalVisible THEN [element |-> Null, notified |-> <<>>]
    ELSE LET style == LocatorStyle(props, ctx, rs) IN
           [element |-> [t |-> "div", id |-> props.id, style |-> style],
            notified |-> <<[event |-> "onLocatorRender", id |-> props.id,
                            zIndex |-> style["zIndex"]]>>]

\* the key of the rect prop whose value pickResponsive hands to Locator
PickedKey(rect, bp) == IF Nullish(Get(rect, bp), Null) = Null THEN "base" ELSE bp

\* the props once Locator has returned: keepAspectRatio assigns the derived
\* side to finalRect, which is the caller's own object when it comes out
\* of the rect prop
LocatorPropsAfter(props, ctx) ==
  LET rs == LocatorRules(props, ctx)
      lr == LocatorLogicalRect(props, ctx)
      k == PickedKey(props.rect, ctx.bp)
  IN IF ~rs.finalVisible THEN props
     ELSE IF Truthy(ctx.logicalSize) /\ Truthy(lr) THEN props
     ELSE IF Nullish(props.rect, Null) = Null THEN props
     ELSE IF Nullish(pickResponsive(props.rect, ctx.bp), Null) = Null
       THEN props
     ELSE [props EXCEPT
             !.rect = Obj([props.rect.o EXCEPT
                             ![k] = keepAspectRatio(Get(props.rect, k),
                                                    props)])]

BREAKPOINTS == [sm |-> 640, md |-> 768, lg |-> 1024, xl |-> 1280]

\* currentBreakpoint with a tier starting just above its threshold
currentBreakpoint_above(width) ==
  IF width > BREAKPOINTS.xl THEN "xl"
  ELSE IF width > BREAKPOINTS.lg THEN "lg"
  ELSE IF width > BREAKPOINTS.md THEN "md"
  ELSE IF width > BREAKPOINTS.sm THEN "sm"
  ELSE "base"

currentBreakpoint(width) ==
  IF width >= BREAKPOINTS.xl THEN "xl"
  ELSE IF width >= BREAKPOINTS.lg THEN "lg"
  ELSE IF width >= BREAKPOINTS.md THEN "md"
  ELSE IF width >= BREAKPOINTS.sm THEN "sm"
  ELSE "base"

\* LocatorProps with only the geometry, stacking and visibility props set
LocatorOf(id, logicalRect, rect, zIndex, hidden) ==
  [id |-> id, rect |-> rect, logicalRect |-> logicalRect, zIndex |-> zIndex,
   hidden |-> hidden, order |-> Undefined, offsetX |-> Undefined,
   offsetY |-> Undefined, flex |-> Undefined, alignSelf |-> Undefined,
   constraints |-> NoConstraints, rules |-> <<>>, style |-> Undefined,
   dataPsyHiddenPage |-> Undefined]

(***************************************************************************)
(* One Locator resolved on its own, in the context a Section provides.     *)
(***************************************************************************)
LogicalRects ==
  {LogicalRectOf(100, 120, 380, 200), LogicalRectOf(0, 0, 7, 5),
   LogicalRectOf(3, 8, 12, 6)}

\* Responsive<LogicalRect>: given directly, or keyed by tier
LogicalRectProps ==
  {Undefined} \cup LogicalRects
    \cup {ObjectOf([base |-> a]) : a \in LogicalRects}
    \cup {ObjectOf([md |-> a]) : a \in LogicalRects}
    \cup {ObjectOf([base |-> LogicalRectOf(0, 0, 7, 5), md |-> a]) :
            a \in LogicalRects}

SnapProps ==
  {Undefined, Num(0), Num(10),
   SnapConfigOf(Num(4), Undefined, Str("x"), Undefined),
   SnapConfigOf(Num(4), Str("strict"), Str("y"), Undefined),
   SnapConfigOf(Num(10), Str("soft"), Undefined, Num(2)),
   SnapConfigOf(Num(0), Str("strict"), Str("both"), Num(0))}

LogicalSizes == {LogicalSizeOf(800, 600), LogicalSizeOf(16, 9)}

LocatorWidths == {0, 767, 768, 1280}

LocatorContexts ==
  {[bp |-> currentBreakpoint(w), width |-> w, logicalSize |-> ls,
    snap |-> normalizeSnapConfig(sn)] :
     w \in LocatorWidths, ls \in LogicalSizes \cup {Undefined},
     sn \in SnapProps}

LocatorInputs ==
  {LocatorOf(Str("a"), lr, r, z, hid) :
     lr \in LogicalRectProps, r \in {Undefined, SampleRect},
     z \in {Undefined, Num(1)},
     hid \in {Undefined, Bool(TRUE), Bool(FALSE)}}

InitLocator ==
  /\ pc = "call"
  /\ call \in [fn : {"Locator"}, props : LocatorInputs, ctx : LocatorContexts]
  /\ ret = Undefined
  /\ NoPass

CallLocator ==
  /\ pc = "call"
  /\ call.fn = "Locator"
  /\ ret' = Locator(call.props, call.ctx)
  /\ call' = [call EXCEPT !.props = LocatorPropsAfter(call.props, call.ctx)]
  /\ pc' = "returned"
  /\ UNCHANGED passVars

NextLocator == CallLocator

SpecLocator == InitLocator /\ [][NextLocator]_vars

\* the LogicalRect a logicalRect prop stands for at a tier: the prop itself
\* when it is given directly, the tier's entry (or base) when it is a map
GivenLogicalRect(v, bp) ==
  IF v = Undefined THEN Undefined
  ELSE IF IsPlainStruct(v) THEN v
  ELSE IF Get(v, bp) # Undefined THEN Get(v, bp)
  ELSE Get(v, "base")

\* v snapped, or not, as the Section's snap configuration asks for an axis
SnappedOn(v, snap, axis) ==
  IF snap = Undefined \/ snap.grid.n <= 0 \/ snap.axes.s \notin {axis, "both"}
    THEN v
    ELSE LET r == CHOOSE r \in (v - snap.grid.n)..(v + snap.grid.n) :
                    IsRounded(r, v, snap.grid.n)
         IN IF snap.mode.s = "soft" /\ Abs(r - v) > snap.threshold.n THEN v
            ELSE r

\* C6: a visible Locator in a Section with LogicalSize (LW, LH) whose
\* logicalRect is given, directly or as a tier map resolving to one, is
\* emitted at left = x'/LW, top = y'/LH, width = w'/LW, height = h'/LH (in
\* percent), position absolute, x' and w' snapped iff the snap axes include
\* x, y' and h' iff they include y; e.g. {800, 600} and {100, 120, 380, 200}
\* give 12.5%, 20%, 47.5%, 33.33...%.
C6_LogicalRectToPercent ==
  LET lr == GivenLogicalRect(call.props.logicalRect, call.ctx.bp)
      ls == call.ctx.logicalSize
      sn == call.ctx.snap
  IN (Returned("Locator") /\ ret.element # Null /\ ls # Undefined
        /\ lr # Undefined) =>
       /\ ret.element.style["position"] = Str("absolute")
       /\ ret.element.style["left"] =
            Percent(SnappedOn(Get(lr, "x").n, sn, "x"), ls.width)
       /\ ret.element.style["width"] =
            Percent(SnappedOn(Get(lr, "w").n, sn, "x"), ls.width)
       /\ ret.element.style["top"] =
            Percent(SnappedOn(Get(lr, "y").n, sn, "y"), ls.height)
       /\ ret.element.style["height"] =
            Percent(SnappedOn(Get(lr, "h").n, sn, "y"), ls.height)

(***************************************************************************)
(* The validation engine.                                                  *)
(***************************************************************************)
Issue(type, severity, sectionId, locatorId, otherLocatorId) ==
  [type |-> type, severity |-> severity, sectionId |-> sectionId,
   locatorId |-> locatorId, otherLocatorId |-> otherLocatorId]

\* the issue raised whenever the mode is free, a LogicalSize given or not
MissingLogicalSizeIssues_always(sectionId, mode, logicalSize) ==
  IF mode = "free"
    THEN <<Issue("MissingLogicalSize", "error", sectionId, Undefined,
                 Undefined)>>
    ELSE <<>>

\* rule 1: free mode without logicalSize
MissingLogicalSizeIssues(sectionId, mode, logicalSize) ==
  IF mode = "free" /\ ~Truthy(logicalSize)
    THEN <<Issue("MissingLogicalSize", "error", sectionId, Undefined,
                 Undefined)>>
    ELSE <<>>

\* lr and r of the loop body
ValidatedLogicalRect(loc, bp) ==
  IF Truthy(loc.logicalRect) THEN pickResponsive(loc.logicalRect, bp)
  ELSE Undefined

ValidatedRect(loc, bp) ==
  IF Truthy(loc.rect) THEN pickResponsive(loc.rect, bp) ELSE Undefined

\* rules 2 to 4 for one locator the visibility filter lets through
LocatorIssues(sectionId, mode, logicalSize, loc, bp) ==
  LET lr == ValidatedLogicalRect(loc, bp)
      r == ValidatedRect(loc, bp)
      ox == pickResponsive(loc.offsetX, bp)
      oy == pickResponsive(loc.offsetY, bp)
      invalidRect ==
        IF mode = "free" /\ Truthy(r)
             /\ (Get(r, "width") = Undefined \/ Get(r, "height") = Undefined)
          THEN <<Issue("InvalidRect", "warning", sectionId, loc.id,
                       Undefined)>>
          ELSE <<>>
      offset ==
        IF (ox.t = "number" \/ oy.t = "number") /\ ~Truthy(logicalSize)
          THEN <<Issue("OffsetWithoutLogicalSize", "warning", sectionId,
                       loc.id, Undefined)>>
          ELSE <<>>
      conflict ==
        IF mode \in {"row", "column"} /\ (Truthy(r) \/ Truthy(lr))
          THEN <<Issue("ModeConflict", "warning", sectionId, loc.id,
                       Undefined)>>
          ELSE <<>>
  IN invalidRect \o offset \o conflict

\* the box a locator adds for the overlap test, if any
LocatorBoxes(mode, logicalSize, loc, bp) ==
  LET lr == ValidatedLogicalRect(loc, bp) IN
    IF mode = "free" /\ Truthy(logicalSize) /\ Truthy(lr)
      THEN <<[id |-> loc.id, x |-> Get(lr, "x").n, y |-> Get(lr, "y").n,
              w |-> Get(lr, "w").n, h |-> Get(lr, "h").n]>>
      ELSE <<>>

\* the loop over the locators: the issues and the boxes it collects
RECURSIVE validateLocators(_, _, _, _, _)
validateLocators(sectionId, mode, logicalSize, locators, bp) ==
  IF locators = <<>> THEN [issues |-> <<>>, boxes |-> <<>>]
  ELSE LET loc == Head(locators)
           rest == validateLocators(sectionId, mode, logicalSize,
                                    Tail(locators), bp)
       IN IF ~resolveVisibility(loc.hidden, bp) THEN rest
          ELSE [issues |->
                  LocatorIssues(sectionId, mode, logicalSize, loc, bp)
                    \o rest.issues,
                boxes |->
                  LocatorBoxes(mode, logicalSize, loc, bp) \o rest.boxes]

Min(a, b) == IF a < b THEN a ELSE b
Max(a, b) == IF a > b THEN a ELSE b

\* the intersection area of two boxes
OverlapArea(a, b) ==
  Max(0, Min(a.x + a.w, b.x + b.w) - Max(a.x, b.x))
    * Max(0, Min(a.y + a.h, b.y + b.h) - Max(a.y, b.y))

\* rule 5: the double loop over the boxes, from the pair (i, j) on
RECURSIVE OverlapIssues(_, _, _, _)
OverlapIssues(sectionId, boxes, i, j) ==
  IF i > Len(boxes) THEN <<>>
  ELSE IF j > Len(boxes) THEN OverlapIssues(sectionId, boxes, i + 1, i + 2)
  ELSE (IF OverlapArea(boxes[i], boxes[j]) > 0
          THEN <<Issue("Overlap", "warning", sectionId, boxes[i].id,
                       boxes[j].id)>>
          ELSE <<>>)
         \o OverlapIssues(sectionId, boxes, i, j + 1)

\* options: sectionId, mode, logicalSize, children, bp.  The message of an
\* issue is left out.
validateSectionLayout(options) ==
  LET v == validateLocators(options.sectionId, options.mode,
                            options.logicalSize, options.children,
                            options.bp)
  IN MissingLogicalSizeIssues(options.sectionId, options.mode,
                              options.logicalSize)
       \o v.issues
       \o OverlapIssues(options.sectionId, v.boxes, 1, 2)

\* m of Section: the mode at the breakpoint, "row" when none is given
DefaultMode == ObjectOf([base |-> Str("row")])

SectionMode(mode, bp) ==
  Nullish(pickResponsive(IF mode = Undefined THEN DefaultMode ELSE mode, bp),
          Str("row")).s

(***************************************************************************)
(* The validation of one Section: its mode resolved as Section does, then  *)
(* validateSectionLayout on its children.                                  *)
(***************************************************************************)
IdNames == <<"a", "b", "c", "d", "e", "f", "g", "h">>

BoxA == LogicalRectOf(0, 0, 100, 100)
BoxB == LogicalRectOf(50, 50, 100, 100)
\* touches BoxA and BoxB along an edge
BoxC == LogicalRectOf(100, 0, 50, 50)

RectNoHeight == RectOf(Num(0), Num(0), Num(10), Undefined)

\* the kinds of child a validated Section holds
ValidatedKinds ==
  {[logicalRect |-> BoxA, rect |-> Undefined, hidden |-> Undefined],
   [logicalRect |-> BoxB, rect |-> Undefined, hidden |-> Undefined],
   [logicalRect |-> ObjectOf([base |-> BoxA]), rect |-> Undefined,
    hidden |-> Undefined],
   [logicalRect |-> ObjectOf([base |-> BoxB]), rect |-> Undefined,
    hidden |-> Undefined],
   [logicalRect |-> ObjectOf([base |-> BoxC, md |-> BoxA]),
    rect |-> Undefined, hidden |-> Undefined],
   [logicalRect |-> ObjectOf([base |-> BoxB]), rect |-> Undefined,
    hidden |-> Bool(TRUE)],
   [logicalRect |-> ObjectOf([base |-> BoxA]), rect |-> Undefined,
    hidden |-> Bool(FALSE)],
   [logicalRect |-> Undefined, rect |-> RectNoHeight, hidden |-> Undefined],
   [logicalRect |-> Undefined, rect |-> ObjectOf([base |-> RectNoHeight]),
    hidden |-> Undefined]}

ValidatedChildren ==
  UNION {{[i \in 1..n |->
             LocatorOf(Str(IdNames[i]), k[i].logicalRect, k[i].rect,
                       Undefined, k[i].hidden)] :
            k \in [1..n -> ValidatedKinds]} : n \in 0..MaxValidated}

ModeProps ==
  {Undefined, Str("free"), Str("row"),
   ObjectOf([base |-> Str("column"), md |-> Str("free")]),
   ObjectOf([md |-> Str("free")])}

InitValidate ==
  /\ pc = "call"
  /\ call \in [fn : {"validateSectionLayout"}, sectionId : {Str("s")},
               mode : ModeProps,
               logicalSize : {Undefined, LogicalSizeOf(800, 600)},
               children : ValidatedChildren, width : {0, 768}]
  /\ ret = Undefined
  /\ NoPass

CallValidateSectionLayout ==
  /\ pc = "call"
  /\ call.fn = "validateSectionLayout"
  /\ ret' = validateSectionLayout(
              [sectionId |-> call.sectionId,
               mode |-> SectionMode(call.mode, currentBreakpoint(call.width)),
               logicalSize |-> call.logicalSize,
               children |-> call.children,
               bp |-> currentBreakpoint(call.width)])
  /\ pc' = "returned"
  /\ UNCHANGED <<call, passVars>>

NextValidate == CallValidateSectionLayout

SpecValidate == InitValidate /\ [][NextValidate]_vars

\* the value a responsive prop stands for at a tier
GivenValue(v, bp) ==
  IF v = Undefined THEN Undefined
  ELSE IF ~IsTierKeyed(v) THEN v
  ELSE IF Get(v, bp) # Undefined THEN Get(v, bp)
  ELSE Get(v, "base")

\* the mode a Section is in: its mode prop at the tier, row by default
GivenMode(mode, bp) ==
  IF GivenValue(mode, bp) = Undefined THEN "row" ELSE GivenValue(mode, bp).s

\* a locator is visible unless its hidden spec is true at the tier
NotHidden(loc, bp) == GivenValue(loc.hidden, bp) \in {Undefined, Bool(FALSE)}

IssuesOfType(issues, type) ==
  {k \in DOMAIN issues : issues[k].type = type}

\* C7: in a free-mode Section with a LogicalSize, exactly one Overlap issue
\* for every pair of visible locators supplying a LogicalRect whose
\* intersection area is > 0, the earlier child as locatorId and the later
\* as otherLocatorId, and none for any other pair.
C7_OverlapPerPair ==
  LET bp == currentBreakpoint(call.width)
      ch == call.children
      box(i) == GivenLogicalRect(ch[i].logicalRect, bp)
      asBox(b) == [x |-> Get(b, "x").n, y |-> Get(b, "y").n,
                   w |-> Get(b, "w").n, h |-> Get(b, "h").n]
      overlapping(i, j) ==
        /\ i < j
        /\ NotHidden(ch[i], bp) /\ NotHidden(ch[j], bp)
        /\ box(i) # Undefined /\ box(j) # Undefined
        /\ OverlapArea(asBox(box(i)), asBox(box(j))) > 0
  IN (Returned("validateSectionLayout") /\ GivenMode(call.mode, bp) = "free"
        /\ call.logicalSize # Undefined) =>
       \A i, j \in DOMAIN ch :
         Cardinality({k \in IssuesOfType(ret, "Overlap") :
                        /\ ret[k].locatorId = ch[i].id
                        /\ ret[k].otherLocatorId = ch[j].id})
           = IF overlapping(i, j) THEN 1 ELSE 0

\* C8: the issue list holds exactly one MissingLogicalSize issue (an error
\* with the section id and no locator id) when the resolved mode is free and
\* no logicalSize is given, and none otherwise, whatever the children.
C8_MissingLogicalSize ==
  LET bp == currentBreakpoint(call.width)
      missing == IssuesOfType(ret, "MissingLogicalSize")
  IN Returned("validateSectionLayout") =>
       /\ Cardinality(missing) =
            IF GivenMode(call.mode, bp) = "free"
                 /\ call.logicalSize = Undefined
              THEN 1 ELSE 0
       /\ \A k \in missing :
            /\ ret[k].severity = "error"
            /\ ret[k].sectionId = call.sectionId
            /\ ret[k].locatorId = Undefined

\* a free Section without logicalSize and with three children, one issue
C8_Witness ==
  /\ Returned("validateSectionLayout")
  /\ call.mode = ObjectOf([md |-> Str("free")])
  /\ call.width = 768
  /\ call.logicalSize = Undefined
  /\ Len(call.children) = 3
  /\ Cardinality(IssuesOfType(ret, "MissingLogicalSize")) = 1
  /\ Len(ret) > 1

(***************************************************************************)
(* Section: visibility, paging arithmetic, validation dispatch, page       *)
(* slicing and the z-order resolver.                                       *)
(***************************************************************************)
applySectionRules(baseVisible, rules, width) ==
  applyLocatorRules(rules, width,
    [finalVisible |-> baseVisible, ruleOffsetX |-> Undefined,
     ruleOffsetY |-> Undefined, ruleZIndex |-> Undefined]).finalVisible

\* an item goes after every item of the sorted run whose key is not larger
RECURSIVE InsertByKey(_, _)
InsertByKey(x, sorted) ==
  IF sorted = <<>> THEN <<x>>
  ELSE IF Head(sorted).key <= x.key
    THEN <<Head(sorted)>> \o InsertByKey(x, Tail(sorted))
  ELSE <<x>> \o sorted

\* Array.prototype.sort on a numeric key: stable
RECURSIVE SortByKey(_)
SortByKey(items) ==
  IF items = <<>> THEN <<>>
  ELSE InsertByKey(items[Len(items)],
                   SortByKey(SubSeq(items, 1, Len(items) - 1)))

Elements(items) == [i \in 1..Len(items) |-> items[i].el]

sortByOrder(children) ==
  Elements(SortByKey(
    [i \in 1..Len(children) |->
       [el |-> children[i],
        key |-> IF children[i].order.t = "number" THEN children[i].order.n
                ELSE i - 1]]))

isPaged(props) == props.pagingMode # "none"
isSliderSlide(props) == props.pagingMode = "slider" /\ props.animation = "slide"

effectivePageSize(props) ==
  IF isPaged(props) /\ Truthy(props.pageSize) /\ props.pageSize.n > 0
    THEN props.pageSize.n
    ELSE IF Len(props.children) = 0 THEN 1 ELSE Len(props.children)

\* Math.ceil(a / b) for b > 0
Ceil(a, b) == (a + b - 1) \div b

totalPages(props) ==
  IF Len(props.children) > 0
    THEN Max(1, Ceil(Len(props.children), effectivePageSize(props)))
    ELSE 1

rawPageIndex(props, page) ==
  IF props.currentPage.t = "number" THEN props.currentPage.n ELSE page

\* safePageIndex with the test for a negative index left out
safePageIndex_noLowerClamp(props, page) ==
  LET raw == rawPageIndex(props, page) IN
    IF raw > totalPages(props) - 1 THEN totalPages(props) - 1
    ELSE raw

safePageIndex(props, page) ==
  LET raw == rawPageIndex(props, page) IN
    IF raw < 0 THEN 0
    ELSE IF raw > totalPages(props) - 1 THEN totalPages(props) - 1
    ELSE raw

\* the notifications of the loop over the issues, up to the throw if any
RECURSIVE dispatchIssues(_, _)
dispatchIssues(id, issues) ==
  IF issues = <<>> THEN [events |-> <<>>, threw |-> FALSE]
  ELSE LET issue == Head(issues)
           rest == dispatchIssues(id, Tail(issues))
       IN IF issue.type = "MissingLogicalSize" /\ issue.severity = "error"
            THEN [events |-> <<[event |-> "onError",
                                error |-> "MissingLogicalSize"]>>,
                  threw |-> TRUE]
          ELSE IF issue.type = "Overlap"
            THEN [events |->
                    <<[event |-> "onLocatorCollision", sectionId |-> id,
                       aId |-> issue.locatorId,
                       bId |-> issue.otherLocatorId]>> \o rest.events,
                  threw |-> rest.threw]
          ELSE rest

\* the validation block with the batch sent after the loop over the issues
SectionValidation_afterLoop(props, bp) ==
  LET issues == validateSectionLayout(
                  [sectionId |-> props.id,
                   mode |-> SectionMode(props.mode, bp),
                   logicalSize |-> props.logicalSize,
                   children |-> props.children, bp |-> bp])
      d == dispatchIssues(props.id, issues)
  IN IF issues = <<>> THEN [events |-> <<>>, threw |-> FALSE]
     ELSE [events |->
             d.events \o <<[event |-> "onLayoutValidation",
                            sectionId |-> props.id, issues |-> issues]>>,
           threw |-> d.threw]

\* the validation block of Section
SectionValidation(props, bp) ==
  LET issues == validateSectionLayout(
                  [sectionId |-> props.id,
                   mode |-> SectionMode(props.mode, bp),
                   logicalSize |-> props.logicalSize,
                   children |-> props.children, bp |-> bp])
      d == dispatchIssues(props.id, issues)
  IN IF issues = <<>> THEN [events |-> <<>>, threw |-> FALSE]
     ELSE [events |->
             <<[event |-> "onLayoutValidation", sectionId |-> props.id,
                issues |-> issues]>> \o d.events,
           threw |-> d.threw]

\* the clone of a child that is not on the current page (lazy = false)
HiddenPageClone(el, page) ==
  [el EXCEPT
     !.style = Spread(IF el.style = Undefined THEN StyleOf(<<>>) ELSE el.style,
                      StyleOf([opacity |-> Num(0),
                               pointerEvents |-> Str("none"),
                               position |-> Str("absolute")])),
     !.dataPsyHiddenPage = Num(page)]

\* pageChildren with a lazy slice that starts one child early
pageChildren_sliceEarly(props, page) ==
  LET orderedAll == sortByOrder(props.children)
      size == effectivePageSize(props)
      current == safePageIndex(props, page)
  IN IF isPaged(props) /\ totalPages(props) > 1 /\ ~isSliderSlide(props)
       THEN IF props.lazy
              THEN SubSeq(orderedAll, Max(1, current * size),
                          Min(current * size + size, Len(orderedAll)))
              ELSE [i \in 1..Len(orderedAll) |->
                      IF (i - 1) \div size = current THEN orderedAll[i]
                      ELSE HiddenPageClone(orderedAll[i], (i - 1) \div size)]
       ELSE orderedAll

\* pageChildren: everything, the slice of the current page, or everything
\* with the other pages' children hidden
pageChildren(props, page) ==
  LET orderedAll == sortByOrder(props.children)
      size == effectivePageSize(props)
      current == safePageIndex(props, page)
  IN IF isPaged(props) /\ totalPages(props) > 1 /\ ~isSliderSlide(props)
       THEN IF props.lazy
              THEN SubSeq(orderedAll, current * size + 1,
                          Min(current * size + size, Len(orderedAll)))
              ELSE [i \in 1..Len(orderedAll) |->
                      IF (i - 1) \div size = current THEN orderedAll[i]
                      ELSE HiddenPageClone(orderedAll[i], (i - 1) \div size)]
       ELSE orderedAll

baseForZ(props, page) ==
  IF isSliderSlide(props) /\ isPaged(props) /\ totalPages(props) > 1
    THEN sortByOrder(props.children)
    ELSE pageChildren(props, page)

\* z of sortLocatorsByZIndex: the zIndex prop at the breakpoint, else the
\* position in the list handed in, counted from 1
LocatorZ(el, idx, bp) ==
  LET resolvedZ == IF TypeofObject(el.zIndex)
                     THEN pickResponsive(el.zIndex, bp)
                     ELSE el.zIndex
  IN Nullish(resolvedZ, Num(idx)).n

\* the first z of the list that an earlier element has too, if any
RECURSIVE FirstDuplicate(_, _)
FirstDuplicate(zs, seen) ==
  IF zs = <<>> THEN Undefined
  ELSE IF Head(zs) \in seen THEN Num(Head(zs))
  ELSE FirstDuplicate(Tail(zs), seen \cup {Head(zs)})

\* the duplicate check run on the current page only when it is a lazy slice
sortLocatorsByZIndex(children, bp) ==
  LET zs == [i \in 1..Len(children) |-> LocatorZ(children[i], i, bp)]
      dup == FirstDuplicate(zs, {})
  IN IF dup # Undefined
       THEN [threw |-> TRUE,
             events |-> <<[event |-> "onError", error |-> "DuplicateZIndex"]>>,
             sorted |-> <<>>]
       ELSE [threw |-> FALSE, events |-> <<>>,
             sorted |-> Elements(SortByKey(
                          [i \in 1..Len(children) |->
                             [el |-> children[i], key |-> zs[i]]]))]

\* one call of the Section component: the notifications it sends, whether
\* it threw, and the children it hands to React in render order
Section(props, width, page) ==
  LET bp == currentBreakpoint(width)
      visible == applySectionRules(resolveVisibility(props.hidden, bp),
                                   props.rules, width)
      v == SectionValidation(props, bp)
      z == sortLocatorsByZIndex(baseForZ(props, page), bp)
  IN IF ~visible THEN [events |-> <<>>, threw |-> FALSE, children |-> <<>>]
     ELSE IF v.threw
       THEN [events |-> v.events, threw |-> TRUE, children |-> <<>>]
     ELSE IF z.threw
       THEN [events |-> v.events \o z.events, threw |-> TRUE,
             children |-> <<>>]
     ELSE [events |->
             v.events \o <<[event |-> "onSectionRender", id |-> props.id]>>,
           threw |-> FALSE, children |-> z.sorted]

\* the context a Section gives its Locators
SectionContext(props, width) ==
  [bp |-> currentBreakpoint(width), width |-> width,
   logicalSize |-> props.logicalSize,
   snap |-> normalizeSnapConfig(props.snap)]

(***************************************************************************)
(* The resolution passes of one mounted Section.  A pass is the call of    *)
(* Section, then the calls of Locator for the children it returned, then   *)
(* the commit with its effects.  The provider starts at width 0 and the    *)
(* host then reports widths.                                               *)
(***************************************************************************)
\* the kinds of child of a mounted Section
SectionKinds ==
  {[zIndex |-> Undefined, hidden |-> Undefined, rules |-> <<>>],
   [zIndex |-> Num(1), hidden |-> Undefined, rules |-> <<>>],
   [zIndex |-> Num(2), hidden |-> Undefined, rules |-> <<>>],
   [zIndex |-> ObjectOf([base |-> Num(2), md |-> Num(3)]),
    hidden |-> Undefined, rules |-> <<>>],
   [zIndex |-> Num(1), hidden |-> Bool(FALSE), rules |-> <<>>],
   [zIndex |-> Num(4), hidden |-> Undefined,
    rules |-> <<LayoutRuleOf(GtCond(0), Undefined, Undefined, Undefined,
                             Num(1))>>]}

SectionChildren ==
  UNION {{[i \in 1..n |->
             [LocatorOf(Str(IdNames[i]), Undefined, Undefined, k[i].zIndex,
                        k[i].hidden) EXCEPT !.rules = k[i].rules]] :
            k \in [1..n -> SectionKinds]} : n \in 0..MaxChildren}

PagingConfigs ==
  {[pagingMode |-> "none", animation |-> "none", pageSize |-> Undefined,
    lazy |-> TRUE],
   [pagingMode |-> "pages", animation |-> "none", pageSize |-> Num(1),
    lazy |-> TRUE],
   [pagingMode |-> "pages", animation |-> "fade", pageSize |-> Num(2),
    lazy |-> TRUE],
   [pagingMode |-> "pages", animation |-> "none", pageSize |-> Num(1),
    lazy |-> FALSE],
   [pagingMode |-> "slider", animation |-> "slide", pageSize |-> Num(1),
    lazy |-> TRUE],
   [pagingMode |-> "slider", animation |-> "scale", pageSize |-> Num(2),
    lazy |-> TRUE]}

LayoutConfigs ==
  {[mode |-> Undefined, logicalSize |-> Undefined],
   [mode |-> Str("free"), logicalSize |-> Undefined],
   [mode |-> Str("free"), logicalSize |-> LogicalSizeOf(800, 600)]}

SectionProps ==
  {[id |-> Str("s"), mode |-> l.mode, logicalSize |-> l.logicalSize,
    snap |-> Undefined, hidden |-> Undefined, rules |-> <<>>,
    pagingMode |-> p.pagingMode, pageSize |-> p.pageSize,
    defaultPage |-> d, currentPage |-> Undefined, loop |-> TRUE,
    lazy |-> p.lazy, animation |-> p.animation, children |-> c] :
     l \in LayoutConfigs, p \in PagingConfigs, d \in {0, 1},
     c \in SectionChildren}

SectionWidths == {0, 768}

InitSection ==
  /\ pc = "render"
  /\ call = Undefined
  /\ ret = Undefined
  /\ section \in SectionProps
  /\ viewportWidth = 0
  /\ internalPage = section.defaultPage
  /\ events = <<>>
  /\ queue = <<>>
  /\ emitted = <<>>
  /\ dragging = FALSE
  /\ dragStartX = 0
  /\ dragDeltaX = 0
  /\ timers = {}

\* React calls Section: a new pass begins
RenderSection ==
  /\ pc = "render"
  /\ \E r \in {Section(section, viewportWidth, internalPage)} :
       /\ events' = r.events
       /\ queue' = r.children
       /\ pc' = IF r.threw THEN "aborted" ELSE "children"
  /\ emitted' = <<>>
  /\ UNCHANGED <<callVars, section, viewportWidth, internalPage, pagingVars>>

\* React calls Locator for the next child the Section returned
RenderLocator ==
  /\ pc = "children"
  /\ queue # <<>>
  /\ \E r \in {Locator(Head(queue), SectionContext(section, viewportWidth))} :
       /\ events' = events \o r.notified
       /\ emitted' = IF r.element = Null THEN emitted
                     ELSE Append(emitted, r.element)
  /\ queue' = Tail(queue)
  /\ section' =
       [section EXCEPT !.children =
          [i \in DOMAIN @ |->
             IF @[i].id = Head(queue).id
               THEN [@[i] EXCEPT !.rect =
                       LocatorPropsAfter(
                         Head(queue),
                         SectionContext(section, viewportWidth)).rect]
               ELSE @[i]]]
  /\ UNCHANGED <<pc, callVars, viewportWidth, internalPage, pagingVars>>

\* the pass is committed and its effects run: an internal page out of range
\* is set to the clamped one, which asks for another pass
Commit ==
  /\ pc = "children"
  /\ queue = <<>>
  /\ LET raw == rawPageIndex(section, internalPage)
         safe == safePageIndex(section, internalPage)
     IN IF raw # safe /\ section.currentPage.t # "number"
          THEN internalPage' = safe /\ pc' = "render"
          ELSE internalPage' = internalPage /\ pc' = "idle"
  /\ UNCHANGED <<callVars, section, viewportWidth, events, queue, emitted,
                 pagingVars>>

\* the host reports a new viewport width
Resize(w) ==
  /\ pc = "idle"
  /\ w # viewportWidth
  /\ viewportWidth' = w
  /\ pc' = "render"
  /\ UNCHANGED <<callVars, section, internalPage, events, queue, emitted,
                 pagingVars>>

NextSection ==
  \/ RenderSection
  \/ RenderLocator
  \/ Commit
  \/ \E w \in SectionWidths : Resize(w)

SpecSection == InitSection /\ [][NextSection]_vars

\* the Section of the pass is visible at the current width
SectionVisible ==
  applySectionRules(
    resolveVisibility(section.hidden, currentBreakpoint(viewportWidth)),
    section.rules, viewportWidth)

\* the effective zIndex of every locator of the Section, in input order
EffectiveZIndexes ==
  [i \in 1..Len(section.children) |->
     LocatorZ(section.children[i], i, currentBreakpoint(viewportWidth))]

\* two locators of the Section have the same effective zIndex
HasDuplicateZIndex ==
  \E i, j \in 1..Len(section.children) :
    i < j /\ EffectiveZIndexes[i] = EffectiveZIndexes[j]

\* the Section is free at the current breakpoint and has no logicalSize
HasMissingLogicalSize ==
  /\ SectionMode(section.mode, currentBreakpoint(viewportWidth)) = "free"
  /\ ~Truthy(section.logicalSize)

\* the pass has gone through the Section function
SectionResolved == pc \in {"children", "idle", "aborted"}

\* how many notifications of a kind the pass has sent
Emissions(kind) ==
  Cardinality({i \in 1..Len(events) : events[i].event = kind})

\* C9: in a visible Section where two locators, on any page and hidden or
\* not, have the same effective zIndex, the pass aborts with the fatal
\* error and hands no locator of the Section downstream.
C9_DuplicateZIndexAborts ==
  (SectionResolved /\ SectionVisible /\ HasDuplicateZIndex)
    => /\ pc = "aborted"
       /\ Emissions("onError") > 0
       /\ queue = <<>>
       /\ emitted = <<>>

\* C10: in a pass of a visible Section where MissingLogicalSize, a
\* duplicate zIndex or both hold, onError is sent exactly once and is the
\* last thing before the abort, no onSectionRender and no onLocatorRender
\* is sent, and no child is emitted.
C10_FatalPassEmitsOnlyOnError ==
  (SectionResolved /\ SectionVisible
     /\ (HasMissingLogicalSize \/ HasDuplicateZIndex))
    => /\ pc = "aborted"
       /\ Emissions("onError") = 1
       /\ events[Len(events)].event = "onError"
       /\ Emissions("onSectionRender") = 0
       /\ Emissions("onLocatorRender") = 0
       /\ queue = <<>>
       /\ emitted = <<>>

(***************************************************************************)
(* The paging state machine of one mounted, visible Section: the page      *)
(* index, the drag gesture and the autoplay timer.  Every event handler    *)
(* React calls is the one of the latest render, and the render that a      *)
(* state change asks for, with its effects, ends the step: the handler,    *)
(* the re-render, the clamp effect and the autoplay effect are one action. *)
(* Only the callback of a live timer keeps the closure of the render in    *)
(* which the timer was started.                                            *)
(***************************************************************************)
\* typeof currentPage === "number"
isControlled(props) == props.currentPage.t = "number"

\* what the functions made in one render of Section close over
Closure(props, page) ==
  [isPaged |-> isPaged(props), totalPages |-> totalPages(props),
   safePageIndex |-> safePageIndex(props, page), loop |-> props.loop,
   controlled |-> isControlled(props)]

\* Target without the wrap of loop
Target_noLoop(next, c) ==
  IF next < 0 THEN 0
  ELSE IF next > c.totalPages - 1 THEN c.totalPages - 1
  ELSE next

\* the page goToPage(next) goes to
Target(next, c) ==
  IF next < 0 THEN IF c.loop THEN c.totalPages - 1 ELSE 0
  ELSE IF next > c.totalPages - 1
    THEN IF c.loop THEN 0 ELSE c.totalPages - 1
  ELSE next

\* what goToPage(next) of a render does, in call order
goToPage(next, c) ==
  <<[event |-> "goToPage", page |-> next]>>
    \o (IF c.controlled THEN <<>>
        ELSE <<[event |-> "setInternalPage", page |-> Target(next, c)]>>)
    \o <<[event |-> "onPageChange", page |-> Target(next, c)]>>

goNext(c) ==
  IF ~c.isPaged \/ c.totalPages <= 1 THEN <<>>
  ELSE goToPage(c.safePageIndex + 1, c)

goPrev(c) ==
  IF ~c.isPaged \/ c.totalPages <= 1 THEN <<>>
  ELSE goToPage(c.safePageIndex - 1, c)

\* internalPage once the calls of a handler have been applied
RECURSIVE PageAfter(_, _)
PageAfter(calls, page) ==
  IF calls = <<>> THEN page
  ELSE PageAfter(Tail(calls),
                 IF Head(calls).event = "setInternalPage"
                   THEN Head(calls).page ELSE page)

\* the clamp effect: an uncontrolled page out of range is set to the safe one
ClampEffect(props, page) ==
  IF rawPageIndex(props, page) # safePageIndex(props, page)
       /\ ~isControlled(props)
    THEN safePageIndex(props, page)
    ELSE page

\* data-psy-page and data-psy-pages of the rendered <section>
Displayed(props, page) ==
  [page |-> safePageIndex(props, page), pages |-> totalPages(props)]

\* the dependency list of the autoplay effect
AutoplayDeps(props) ==
  <<isPaged(props), props.autoPlay, props.autoPlayInterval,
    totalPages(props), isSliderSlide(props)>>

\* the effect body starts a timer unless it returns early
AutoplayOn(props) ==
  isPaged(props) /\ props.autoPlay /\ totalPages(props) > 1
    /\ isSliderSlide(props)

\* a timer holds goNext of the render whose effect started it
TimerOf(props, page) ==
  [deps |-> AutoplayDeps(props), goNext |-> Closure(props, page)]

\* cleanup of the effect that ran with the dependencies deps
clearInterval(live, deps) == {t \in live : t.deps # deps}

\* the autoplay effect without its cleanup
AutoplayEffect_noCleanup(live, prev, props, page) ==
  IF AutoplayDeps(prev) = AutoplayDeps(props) THEN live
  ELSE live \cup (IF AutoplayOn(props) THEN {TimerOf(props, page)} ELSE {})

\* the autoplay effect after a render with props, the render before it
\* having had the props prev: nothing when the dependencies are the same
AutoplayEffect(live, prev, props, page) ==
  IF AutoplayDeps(prev) = AutoplayDeps(props) THEN live
  ELSE clearInterval(live, AutoplayDeps(prev))
         \cup (IF AutoplayOn(props) THEN {TimerOf(props, page)} ELSE {})

dragThresholdPx == 50

\* n children that differ in their id only
PagedChildren(n) ==
  [i \in 1..n |->
     LocatorOf(Str(IdNames[i]), Undefined, Undefined, Undefined, Undefined)]

\* an autoplaying slider of three pages
BasePaging ==
  [id |-> Str("s"), mode |-> Undefined, logicalSize |-> Undefined,
   snap |-> Undefined, hidden |-> Undefined, rules |-> <<>>,
   pagingMode |-> "slider", pageSize |-> Num(3), defaultPage |-> 0,
   currentPage |-> Undefined, loop |-> TRUE, lazy |-> TRUE,
   animation |-> "slide", children |-> PagedChildren(MaxPaged),
   autoPlay |-> TRUE, autoPlayInterval |-> 5000]

\* the pages a host asks for: below the range, inside it, above it
HostPages == {-1, 1, MaxPage}

\* the props the host renders the Section with; defaultPage is read at
\* mount only
PagingProps ==
  {BasePaging}
    \cup {[BasePaging EXCEPT !.autoPlay = FALSE],
          [BasePaging EXCEPT !.autoPlayInterval = 1000],
          [BasePaging EXCEPT !.loop = FALSE],
          [BasePaging EXCEPT !.animation = "fade"],
          [BasePaging EXCEPT !.pagingMode = "pages"],
          [BasePaging EXCEPT !.pagingMode = "none"]}
    \cup {[BasePaging EXCEPT !.pageSize = ps] :
            ps \in {Undefined, Num(0), Num(2)}}
    \cup {[BasePaging EXCEPT !.children = PagedChildren(n)] : n \in {0, 3}}
    \cup {[BasePaging EXCEPT !.currentPage = Num(c)] : c \in HostPages}

PointerXs == {40, 100, 150}

InitPaging ==
  /\ pc = "mounted"
  /\ call = [fn |-> "Section"]
  /\ \E p \in PagingProps, d \in HostPages :
       section = [p EXCEPT !.defaultPage = d]
  /\ viewportWidth = 0
  /\ internalPage = ClampEffect(section, section.defaultPage)
  /\ ret = Displayed(section, internalPage)
  /\ events = <<>>
  /\ queue = <<>>
  /\ emitted = <<>>
  /\ dragging = FALSE
  /\ dragStartX = 0
  /\ dragDeltaX = 0
  /\ timers = IF AutoplayOn(section)
                THEN {TimerOf(section, section.defaultPage)} ELSE {}

\* the state changes of a handler that made the calls, and the re-render
Handled(handler, calls) ==
  /\ call' = handler
  /\ events' = calls
  /\ internalPage' = ClampEffect(section, PageAfter(calls, internalPage))
  /\ ret' = Displayed(section, internalPage')
  /\ UNCHANGED <<pc, section, viewportWidth, queue, emitted, timers>>

\* the dots and arrows are rendered
ControlsShown == isPaged(section) /\ totalPages(section) > 1

\* a dot is clicked: onClick={() => goToPage(idx)}
ClickDot(idx) ==
  /\ pc = "mounted"
  /\ ControlsShown
  /\ idx \in 0..(totalPages(section) - 1)
  /\ Handled([fn |-> "goToPage", next |-> idx],
             goToPage(idx, Closure(section, internalPage)))
  /\ UNCHANGED <<dragging, dragStartX, dragDeltaX>>

ClickPrev ==
  /\ pc = "mounted"
  /\ ControlsShown
  /\ Handled([fn |-> "goPrev"], goPrev(Closure(section, internalPage)))
  /\ UNCHANGED <<dragging, dragStartX, dragDeltaX>>

ClickNext ==
  /\ pc = "mounted"
  /\ ControlsShown
  /\ Handled([fn |-> "goNext"], goNext(Closure(section, internalPage)))
  /\ UNCHANGED <<dragging, dragStartX, dragDeltaX>>

\* onMouseDown, onTouchStart
handlePointerDown(clientX) ==
  /\ pc = "mounted"
  /\ Handled([fn |-> "handlePointerDown", clientX |-> clientX], <<>>)
  /\ IF ~isSliderSlide(section)
       THEN UNCHANGED <<dragging, dragStartX, dragDeltaX>>
       ELSE /\ dragging' = TRUE
            /\ dragStartX' = clientX
            /\ dragDeltaX' = 0

\* onMouseMove, onTouchMove
handlePointerMove(clientX) ==
  /\ pc = "mounted"
  /\ Handled([fn |-> "handlePointerMove", clientX |-> clientX], <<>>)
  /\ IF ~isSliderSlide(section) \/ ~dragging
       THEN UNCHANGED <<dragging, dragStartX, dragDeltaX>>
       ELSE /\ dragDeltaX' = clientX - dragStartX
            /\ UNCHANGED <<dragging, dragStartX>>

\* handlePointerUp navigating at the threshold already
handlePointerUp_atThreshold(handler) ==
  /\ pc = "mounted"
  /\ IF ~isSliderSlide(section) \/ ~dragging
       THEN /\ Handled([fn |-> handler], <<>>)
            /\ UNCHANGED <<dragging, dragStartX, dragDeltaX>>
       ELSE /\ Handled([fn |-> handler],
                       IF Abs(dragDeltaX) >= dragThresholdPx
                         THEN IF dragDeltaX < 0
                                THEN goNext(Closure(section, internalPage))
                                ELSE goPrev(Closure(section, internalPage))
                         ELSE <<>>)
            /\ dragging' = FALSE
            /\ dragDeltaX' = 0
            /\ UNCHANGED dragStartX

handlePointerUp(handler) ==
  /\ pc = "mounted"
  /\ IF ~isSliderSlide(section) \/ ~dragging
       THEN /\ Handled([fn |-> handler], <<>>)
            /\ UNCHANGED <<dragging, dragStartX, dragDeltaX>>
       ELSE /\ Handled([fn |-> handler],
                       IF Abs(dragDeltaX) > dragThresholdPx
                         THEN IF dragDeltaX < 0
                                THEN goNext(Closure(section, internalPage))
                                ELSE goPrev(Closure(section, internalPage))
                         ELSE <<>>)
            /\ dragging' = FALSE
            /\ dragDeltaX' = 0
            /\ UNCHANGED dragStartX

onMouseUp == handlePointerUp("onMouseUp")
onMouseLeave == handlePointerUp("onMouseLeave")
onTouchEnd == handlePointerUp("onTouchEnd")

\* a live timer fires: goNext of the render that started it
AutoplayTick(t) ==
  /\ pc = "mounted"
  /\ t \in timers
  /\ Handled([fn |-> "setInterval"], goNext(t.goNext))
  /\ UNCHANGED <<dragging, dragStartX, dragDeltaX>>

\* the host renders the Section again with other props
Rerender(p) ==
  /\ pc = "mounted"
  /\ section' = p
  /\ section' # section
  /\ internalPage' = ClampEffect(section', internalPage)
  /\ timers' = AutoplayEffect(timers, section, section', internalPage)
  /\ ret' = Displayed(section', internalPage')
  /\ events' = <<>>
  /\ call' = [fn |-> "Section"]
  /\ UNCHANGED <<pc, viewportWidth, queue, emitted, dragging, dragStartX,
                 dragDeltaX>>

\* the Section is unmounted: the cleanup of the autoplay effect runs
Unmount ==
  /\ pc = "mounted"
  /\ pc' = "unmounted"
  /\ timers' = clearInterval(timers, AutoplayDeps(section))
  /\ UNCHANGED <<callVars, section, viewportWidth, internalPage, events,
                 queue, emitted, dragging, dragStartX, dragDeltaX>>

NextPaging ==
  \/ \E idx \in 0..MaxPaged : ClickDot(idx)
  \/ ClickPrev
  \/ ClickNext
  \/ \E x \in PointerXs : handlePointerDown(x)
  \/ \E x \in PointerXs : handlePointerMove(x)
  \/ onMouseUp
  \/ onMouseLeave
  \/ onTouchEnd
  \/ \E t \in timers : AutoplayTick(t)
  \/ \E p \in PagingProps : Rerender(p)
  \/ Unmount

SpecPaging == InitPaging /\ [][NextPaging]_vars

\* effectivePageSize as the paging contract words it
ContractPageSize ==
  IF section.pagingMode # "none" /\ section.pageSize.t = "number"
       /\ section.pageSize.n > 0
    THEN section.pageSize.n
    ELSE Len(section.children)

\* totalPages as the paging contract words it; with no children and no
\* page size there is nothing to divide by and the Section has one page
ContractTotalPages ==
  IF ContractPageSize = 0 THEN 1
  ELSE Max(1, Ceil(Len(section.children), ContractPageSize))

\* C11: whatever navigation, drag, autoplay ticks and prop changes came
\* before, the displayed number of pages is max(1, ceil(childCount /
\* effectivePageSize)) and the displayed page index is between 0 and
\* totalPages - 1.
C11_PageIndexInRange ==
  /\ ret.pages = ContractTotalPages
  /\ 0 <= ret.page
  /\ ret.page <= ret.pages - 1

\* a host page above the range is displayed as the last of the three pages
\* that seven children in pages of three make, after a navigation
C11_Witness ==
  /\ Len(section.children) = MaxPaged
  /\ section.pageSize = Num(3)
  /\ ret.pages = 3
  /\ section.currentPage = Num(MaxPage)
  /\ ret.page = 2
  /\ events # <<>>

(***************************************************************************)
(* goToPage called on its own with any page number, in the first render    *)
(* of a Section.                                                           *)
(***************************************************************************)
InitGoToPage ==
  /\ pc = "call"
  /\ call \in [fn : {"goToPage"}, next : (0 - MaxPage)..MaxPage,
               props : PagingProps]
  /\ ret = Undefined
  /\ NoPass

CallGoToPage ==
  /\ pc = "call"
  /\ call.fn = "goToPage"
  /\ ret' = goToPage(call.next,
                     Closure(call.props, call.props.defaultPage))
  /\ pc' = "returned"
  /\ UNCHANGED <<call, passVars>>

NextGoToPage == CallGoToPage

SpecGoToPage == InitGoToPage /\ [][NextGoToPage]_vars

\* the pages a list of calls hands to setInternalPage and onPageChange
Targets(calls) ==
  {calls[i].page : i \in {j \in 1..Len(calls) : calls[j].event # "goToPage"}}

\* C12: goToPage(n) goes to n when n is a page; below 0 it goes to the last
\* page with loop and to 0 without; above the last page it goes to 0 with
\* loop and to the last page without; so the target is always a page.
C12_GoToPageTarget ==
  Returned("goToPage") =>
    LET n == call.next
        last == totalPages(call.props) - 1
        loop == call.props.loop
    IN /\ Targets(ret) =
            {IF n < 0 THEN IF loop THEN last ELSE 0
             ELSE IF n > last THEN IF loop THEN 0 ELSE last
             ELSE n}
       /\ \A target \in Targets(ret) : 0 <= target /\ target <= last

\* with three pages and loop, goToPage(3) went to page 0
C12_Witness ==
  /\ Returned("goToPage")
  /\ totalPages(call.props) = 3
  /\ call.props.loop
  /\ call.next = 3
  /\ Targets(ret) = {0}

\* with three pages and loop, goToPage(-1) went to page 2
C12_WitnessBelow ==
  /\ Returned("goToPage")
  /\ totalPages(call.props) = 3
  /\ call.props.loop
  /\ call.next = -1
  /\ Targets(ret) = {2}

\* mouse up, the pointer leaving the surface, touch end
GestureEnds == {"onMouseUp", "onMouseLeave", "onTouchEnd"}

IsGoToPage(e) == e.event = "goToPage"

\* the arguments of the goToPage invocations among the calls, in order
GoToPageCalls(calls) ==
  LET made == SelectSeq(calls, IsGoToPage)
  IN [i \in 1..Len(made) |-> made[i].page]

\* C13: in slider+slide mode with more than one page, a move to x during a
\* gesture started at x0 leaves dragDelta = x - x0, and the end of the
\* gesture invokes goToPage exactly once, with current + 1 when the delta is
\* below -50 and with current - 1 when it is above 50, and not at all when
\* |delta| <= 50; dragDelta is 0 and dragging is idle afterwards.
C13_DragGesture ==
  [][(pc' = "mounted" /\ isSliderSlide(section) /\ totalPages(section) > 1
        /\ section' = section /\ dragging)
       => /\ call'.fn = "handlePointerMove"
               => dragDeltaX' = call'.clientX - dragStartX
          /\ call'.fn \in GestureEnds
               => /\ GoToPageCalls(events') =
                       IF dragDeltaX < 0 - dragThresholdPx
                         THEN <<ret.page + 1>>
                       ELSE IF dragDeltaX > dragThresholdPx
                         THEN <<ret.page - 1>>
                       ELSE <<>>
                  /\ dragDeltaX' = 0
                  /\ dragging' = FALSE]_vars

\* a gesture started at x = 100 and released has invoked goToPage once
C13_Witness ==
  /\ call.fn = "onMouseUp"
  /\ isSliderSlide(section)
  /\ totalPages(section) > 1
  /\ dragStartX = 100
  /\ Len(GoToPageCalls(events)) = 1
  /\ ~dragging
  /\ dragDeltaX = 0

IsSetInternalPage(e) == e.event = "setInternalPage"
IsOnPageChange(e) == e.event = "onPageChange"

\* the host's currentPage brought into the range of pages
ClampedHostPage(props) ==
  Max(0, Min(props.currentPage.n, totalPages(props) - 1))

\* C14: while the host supplies currentPage, no handler, timer tick or
\* effect assigns internalPage, the displayed page is the supplied one
\* clamped to the range of pages, and every goToPage still calls
\* onPageChange exactly once, with its target.
C14_ControlledPageReadOnly ==
  [][(pc' = "mounted" /\ isControlled(section) /\ isControlled(section'))
       => /\ internalPage' = internalPage
          /\ SelectSeq(events', IsSetInternalPage) = <<>>
          /\ ret'.page = ClampedHostPage(section')
          /\ Len(SelectSeq(events', IsOnPageChange))
               = Len(GoToPageCalls(events'))
          /\ \A i \in 1..Len(events') :
               IsOnPageChange(events'[i]) =>
                 /\ events'[i].page >= 0
                 /\ events'[i].page <= totalPages(section') - 1]_vars

\* autoplay is active, as the paging contract words it
ContractAutoplay ==
  /\ section.pagingMode # "none"
  /\ section.autoPlay
  /\ ContractTotalPages > 1
  /\ section.pagingMode = "slider"
  /\ section.animation = "slide"

\* C15: at most one autoplay timer is live; while the Section is mounted
\* one is live exactly when paging is enabled, autoPlay is set, there is
\* more than one page and the Section is a slider with the slide animation;
\* the live timer is the one started for the current autoplay flag,
\* interval, number of pages and mode; none is live after unmounting.
C15_OneAutoplayTimer ==
  /\ Cardinality(timers) <= 1
  /\ pc = "mounted" => (timers # {} <=> ContractAutoplay)
  /\ \A t \in timers : t.deps = AutoplayDeps(section)
  /\ pc = "unmounted" => timers = {}

\* the Section was rendered again with another interval and then unmounted
\* while autoplay was on
C15_Witness ==
  /\ pc = "unmounted"
  /\ section.autoPlayInterval = 1000
  /\ section.defaultPage = 0
  /\ ContractAutoplay
  /\ timers = {}

\* C16: when dragging is active, a mouse up, a touch end or the pointer
\* leaving the surface makes dragging idle and dragDelta 0, whatever
\* happened since the gesture started.
C16_GestureEndReturnsToIdle ==
  [][(pc' = "mounted" /\ dragging /\ call'.fn \in GestureEnds)
       => (dragging' = FALSE /\ dragDeltaX' = 0)]_vars

\* the zIndex values of the resolved styles emitted so far in the pass
EmittedZIndexes ==
  [i \in 1..Len(emitted) |-> emitted[i].style["zIndex"]]

\* the zIndex values reported by onLocatorRender so far in the pass
IsLocatorRender(e) == e.event = "onLocatorRender"
ReportedZIndexes ==
  LET r == SelectSeq(events, IsLocatorRender)
  IN [i \in 1..Len(r) |-> r[i].zIndex]

\* no two entries of zs that are defined are the same
PairwiseDistinct(zs) ==
  \A i, j \in 1..Len(zs) :
    (i < j /\ zs[i] # Undefined /\ zs[j] # Undefined) => zs[i] # zs[j]

\* C17: in a pass that completes without a fatal error, the zIndex values
\* of the emitted Locator styles, which onLocatorRender reports, are
\* pairwise distinct among the locators that have one, rule overrides
\* included.
C17_EmittedZIndexDistinct ==
  (pc \in {"children", "idle"})
    => /\ PairwiseDistinct(EmittedZIndexes)
       /\ PairwiseDistinct(ReportedZIndexes)

(***************************************************************************)
(* Locator resolved with the rect, logicalRect and constraints props that  *)
(* decide which object finalRect is.                                       *)
(***************************************************************************)
\* LocatorConstraints
ConstraintsOf(c) ==
  [k \in ConstraintKeys |-> IF k \in DOMAIN c THEN c[k] ELSE Undefined]

AspectRects ==
  {Undefined,
   RectOf(Undefined, Undefined, Num(10), Undefined),
   ObjectOf([base |-> RectOf(Undefined, Undefined, Num(10), Undefined)]),
   ObjectOf([base |-> RectOf(Num(0), Num(0), Undefined, Num(6))]),
   ObjectOf([base |-> RectOf(Num(0), Num(0), Num(10), Num(6))]),
   ObjectOf([base |-> RectOf(Undefined, Undefined, Num(10), Str("50%"))]),
   ObjectOf([base |-> RectOf(Undefined, Undefined, Str("10%"), Str("50%"))]),
   ObjectOf([base |-> RectOf(Undefined, Undefined, Num(10), Undefined),
             md |-> RectOf(Undefined, Undefined, Undefined, Num(6))])}

AspectConstraints ==
  {Undefined,
   ConstraintsOf([keepAspectRatio |-> Num(2)]),
   ConstraintsOf([keepAspectRatio |-> Num(2), pinLeft |-> Bool(TRUE)]),
   ConstraintsOf([centerX |-> Bool(TRUE)])}

AspectInputs ==
  {[LocatorOf(Str("a"), lr, r, Undefined, hid) EXCEPT !.constraints = c] :
     lr \in {Undefined, ObjectOf([base |-> LogicalRectOf(0, 0, 7, 5)])},
     r \in AspectRects, hid \in {Undefined, Bool(FALSE)},
     c \in AspectConstraints}

AspectContexts ==
  {[bp |-> currentBreakpoint(w), width |-> w, logicalSize |-> ls,
    snap |-> Undefined] :
     w \in {0, 768}, ls \in {Undefined, LogicalSizeOf(800, 600)}}

InitAspect ==
  /\ pc = "call"
  /\ call \in [fn : {"Locator"}, props : AspectInputs, ctx : AspectContexts]
  /\ ret = Undefined
  /\ NoPass

SpecAspect == InitAspect /\ [][NextLocator]_vars

\* C18: a call of Locator leaves the rect and logicalRect objects of the
\* props as they were, for every rect, logicalRect and constraints.
C18_PropsNotModified ==
  [][(pc = "call" /\ call.fn = "Locator" /\ pc' = "returned")
       => /\ call'.props.rect = call.props.rect
          /\ call'.props.logicalRect = call.props.logicalRect]_vars

(***************************************************************************)
(* DesignManagerProvider: the width state and the context value it hands   *)
(* down, over the widths the host reports.                                 *)
(***************************************************************************)
\* the value of DesignCtx in the render with the width w
DesignContext(w) == [bp |-> currentBreakpoint(w), width |-> w]

\* window.innerWidth: the widths next to a multiple of 16, the tier
\* thresholds among them
ProviderWidths == {w \in 0..MaxViewport : w % 16 \in {0, 15}}

InitProvider ==
  /\ pc = "mounted"
  /\ call = [fn |-> "DesignManagerProvider"]
  /\ viewportWidth = 0
  /\ ret = DesignContext(viewportWidth)
  /\ section = Undefined
  /\ internalPage = 0
  /\ events = <<[event |-> "onRenderStart"]>>
  /\ queue = <<>>
  /\ emitted = <<>>
  /\ dragging = FALSE
  /\ dragStartX = 0
  /\ dragDeltaX = 0
  /\ timers = {}

\* update: the mount effect and the resize listener read window.innerWidth
update(innerWidth) ==
  /\ pc = "mounted"
  /\ call' = [fn |-> "update", innerWidth |-> innerWidth]
  /\ viewportWidth' = innerWidth
  /\ ret' = DesignContext(viewportWidth')
  /\ UNCHANGED <<pc, section, internalPage, events, queue, emitted,
                 pagingVars>>

\* the provider is unmounted: the listener is removed, onRenderEnd fires
ProviderUnmount ==
  /\ pc = "mounted"
  /\ pc' = "unmounted"
  /\ events' = Append(events, [event |-> "onRenderEnd"])
  /\ UNCHANGED <<callVars, section, viewportWidth, internalPage, queue,
                 emitted, pagingVars>>

NextProvider ==
  \/ \E w \in ProviderWidths : update(w)
  \/ ProviderUnmount

SpecProvider == InitProvider /\ [][NextProvider]_vars

\* the tier of a width, as the breakpoint contract words it
ContractTier(w) ==
  IF w >= 1280 THEN "xl"
  ELSE IF w >= 1024 THEN "lg"
  ELSE IF w >= 768 THEN "md"
  ELSE IF w >= 640 THEN "sm"
  ELSE "base"

\* C19: the active tier is the classification of the latest reported
\* width (xl from 1280, lg from 1024, md from 768, sm from 640, else
\* base); before the first report the width is 0 and the tier is base.
C19_TierOfLatestWidth ==
  /\ call.fn = "update"
       => /\ ret.width = call.innerWidth
          /\ ret.bp = ContractTier(call.innerWidth)
  /\ call.fn = "DesignManagerProvider"
       => /\ ret.width = 0
          /\ ret.bp = "base"

\* after a report of 1279 the host reported 768: the tier is md
C19_Witness ==
  /\ call = [fn |-> "update", innerWidth |-> 768]
  /\ ret = [bp |-> "md", width |-> 768]

(***************************************************************************)
(* Locator resolved with rule lists over hidden, offsetX, offsetY and      *)
(* zIndex.                                                                 *)
(***************************************************************************)
\* the fields a rule sets: one, several, or two of them
RuleOverrides ==
  {<<Bool(TRUE), Undefined, Undefined, Undefined>>,
   <<Bool(FALSE), Undefined, Undefined, Undefined>>,
   <<Undefined, Num(7), Undefined, Undefined>>,
   <<Undefined, Undefined, Str("2em"), Num(3)>>,
   <<Bool(TRUE), Num(7), Undefined, Num(3)>>,
   <<Undefined, Undefined, Undefined, Num(9)>>}

\* ">0" matches every width but 0, "<1" matches width 0 only
LocatorRuleSet ==
  {LayoutRuleOf(w, o[1], o[2], o[3], o[4]) :
     w \in {GtCond(0), LtCond(1)}, o \in RuleOverrides}

RuleLists == UNION {[1..n -> LocatorRuleSet] : n \in 0..MaxRules}

RuleInputs ==
  {[LocatorOf(Str("a"), Undefined, Undefined, b[3], hid)
      EXCEPT !.offsetX = b[1], !.offsetY = b[2], !.rules = rules] :
     hid \in {Undefined, Bool(TRUE), Bool(FALSE)},
     b \in {<<Undefined, Undefined, Undefined>>, <<Num(5), Num(6), Num(1)>>},
     rules \in RuleLists}

RuleContexts ==
  {[bp |-> currentBreakpoint(w), width |-> w, logicalSize |-> ls,
    snap |-> Undefined] :
     w \in {0, 768}, ls \in {Undefined, LogicalSizeOf(800, 600)}}

InitLocatorRules ==
  /\ pc = "call"
  /\ call \in [fn : {"Locator"}, props : RuleInputs, ctx : RuleContexts]
  /\ ret = Undefined
  /\ NoPass

SpecLocatorRules == InitLocatorRules /\ [][NextLocator]_vars

\* the value of a field after the rules: that of the last rule, in
\* declaration order, that matches the width and defines the field, else
\* the fallback
RuleEffective(rules, width, field, fallback) ==
  LET hits == {i \in 1..Len(rules) :
                 matchRule(rules[i].when, width)
                   /\ rules[i][field] # Undefined}
  IN IF hits = {} THEN fallback
     ELSE rules[CHOOSE i \in hits : \A j \in hits : j <= i][field]

\* the transform a Locator without a transform of its own gets from the
\* offsets
OffsetTransform(effOx, effOy, logicalSize) ==
  LET ox == LocatorOffset(effOx, logicalSize,
              IF Truthy(logicalSize) THEN logicalSize.width ELSE 1)
      oy == LocatorOffset(effOy, logicalSize,
              IF Truthy(logicalSize) THEN logicalSize.height ELSE 1)
  IN IF Truthy(ox) \/ Truthy(oy) THEN TranslateString(ox, oy) ELSE Undefined

\* C20: for each of hidden, offsetX, offsetY and zIndex on its own, the
\* Locator uses the value of the last rule that matches the width and
\* defines the field, and the prop value at the breakpoint when no matching
\* rule defines it: it is rendered exactly when the resulting hidden is not
\* true, with the resulting zIndex and the translate of the resulting
\* offsets.
C20_LastMatchingRulePerField ==
  Returned("Locator") =>
    LET p == call.props
        c == call.ctx
        eff(field) == RuleEffective(p.rules, c.width, field,
                                    pickResponsive(p[field], c.bp))
    IN /\ (ret.element = Null) = Truthy(eff("hidden"))
       /\ ret.element # Null
            => /\ ret.element.style["zIndex"] = eff("zIndex")
               /\ ret.element.style["transform"] =
                    OffsetTransform(eff("offsetX"), eff("offsetY"),
                                    c.logicalSize)

(***************************************************************************)
(* Locator resolved with offsets from props and rules, the lockX and lockY *)
(* constraints and a transform of the caller's own.                        *)
(***************************************************************************)
\* Responsive<number | string>
OffsetProps ==
  {Undefined, Num(0), Num(40), Str("2em"),
   ObjectOf([base |-> Num(40), md |-> Str("1rem")])}

\* rules that set an offset at every width but 0
OffsetRules ==
  {<<>>,
   <<LayoutRuleOf(GtCond(0), Undefined, Num(8), Undefined, Undefined)>>,
   <<LayoutRuleOf(GtCond(0), Undefined, Undefined, Str("3px"), Undefined)>>}

LockConstraints ==
  {Undefined, ConstraintsOf([lockX |-> Bool(TRUE)]),
   ConstraintsOf([lockY |-> Bool(TRUE)]),
   ConstraintsOf([lockX |-> Bool(TRUE), lockY |-> Bool(TRUE)])}

OffsetInputs ==
  {[LocatorOf(Str("a"), Undefined, Undefined, Undefined, Undefined)
      EXCEPT !.offsetX = x, !.offsetY = y, !.rules = rules,
             !.constraints = c, !.style = st] :
     x \in OffsetProps, y \in {Undefined, Num(30), Str("2em")},
     rules \in OffsetRules, c \in LockConstraints,
     st \in {Undefined, StyleOf([transform |-> Str("rotate(5deg)")])}}

OffsetContexts ==
  {[bp |-> currentBreakpoint(w), width |-> w, logicalSize |-> ls,
    snap |-> Undefined] :
     w \in {0, 768}, ls \in {Undefined, LogicalSizeOf(800, 600)}}

InitOffsets ==
  /\ pc = "call"
  /\ call \in [fn : {"Locator"}, props : OffsetInputs, ctx : OffsetContexts]
  /\ ret = Undefined
  /\ NoPass

SpecOffsets == InitOffsets /\ [][NextLocator]_vars

\* the offset of an axis: none under the lock of the axis, else that of
\* the matched rule, else the prop at the tier
ContractOffset(p, c, field, lock) ==
  IF Constraint(p, lock) = Bool(TRUE) THEN Undefined
  ELSE RuleEffective(p.rules, c.width, field, GivenValue(p[field], c.bp))

\* an offset as a length: a number v is (v / extent) * 100 % of the
\* LogicalSize when there is one, else v px; a string is itself
ContractLength(v, logicalSize, axis) ==
  IF v = Undefined THEN Undefined
  ELSE IF v.t = "number"
    THEN IF logicalSize # Undefined
           THEN [t |-> "string", s |-> "%",
                 n |-> Rat(v.n * 100, v.d * logicalSize[axis]).n,
                 d |-> Rat(v.n * 100, v.d * logicalSize[axis]).d]
           ELSE [t |-> "string", s |-> "px", n |-> v.n, d |-> v.d]
  ELSE v

\* the translate of the two lengths, "0" for an axis without one
ContractTranslate(p, c) ==
  LET ox == ContractLength(ContractOffset(p, c, "offsetX", "lockX"),
                           c.logicalSize, "width")
      oy == ContractLength(ContractOffset(p, c, "offsetY", "lockY"),
                           c.logicalSize, "height")
  IN IF ox = Undefined /\ oy = Undefined THEN Undefined
     ELSE [t |-> "string", s |-> "translate",
           x |-> IF ox = Undefined THEN Str("0") ELSE ox,
           y |-> IF oy = Undefined THEN Str("0") ELSE oy]

\* C21: per axis the offset of a Locator is none under lockX (lockY),
\* else the matched rule's offset, else the prop's offset at the tier; a
\* number v becomes (v / LogicalSize.width) * 100 % on x and
\* (v / LogicalSize.height) * 100 % on y in a Section with a LogicalSize and
\* v px without one, a string stays as it is; the translate comes after the
\* caller's own transform.
C21_OffsetsAndLocks ==
  Returned("Locator") =>
    LET p == call.props
        c == call.ctx
        translate == ContractTranslate(p, c)
        own == IF p.style = Undefined THEN Undefined
               ELSE p.style["transform"]
        transform == ret.element.style["transform"]
    IN /\ ret.element # Null
       /\ own = Undefined => transform = translate
       /\ (own # Undefined /\ translate = Undefined) => transform = own
       /\ (own # Undefined /\ translate # Undefined) =>
            transform = [t |-> "string", s |-> "join", a |-> own,
                         b |-> translate]

\* lockX drops the rule's x offset of 8, the y offset 30 is 5% of the
\* height 600, after the caller's rotate
C21_Witness ==
  /\ Returned("Locator")
  /\ call.ctx.width = 768
  /\ call.ctx.logicalSize = LogicalSizeOf(800, 600)
  /\ Constraint(call.props, "lockX") = Bool(TRUE)
  /\ Constraint(call.props, "lockY") = Undefined
  /\ call.props.rules # <<>> /\ call.props.rules[1].offsetX = Num(8)
  /\ call.props.offsetY = Num(30)
  /\ ret.element.style["transform"] =
       [t |-> "string", s |-> "join", a |-> Str("rotate(5deg)"),
        b |-> [t |-> "string", s |-> "translate", x |-> Str("0"),
               y |-> [t |-> "string", s |-> "%", n |-> 5, d |-> 1]]]

\* the rect a Locator is positioned by: the percentages of its logicalRect
\* in a Section with a LogicalSize, else its rect prop at the tier
ContractRect(p, c) ==
  IF c.logicalSize # Undefined /\ GivenLogicalRect(p.logicalRect, c.bp) # Undefined
    THEN LocatorFinalRect(p, c)
    ELSE IF GivenValue(p.rect, c.bp) = Undefined THEN EmptyObject
         ELSE GivenValue(p.rect, c.bp)

\* a side of the rect as it is emitted: a number in pixels, a string as it is
ContractDim(v) ==
  IF v = Undefined THEN Undefined
  ELSE IF v.t = "number" THEN [t |-> "string", s |-> "px", n |-> v.n, d |-> v.d]
  ELSE v

\* C22: with keepAspectRatio = r > 0, when exactly one of the width and
\* height of the resolved rect is a bare number the other one is derived
\* (height = width / r, width = height * r); when both or neither are
\* bare numbers nothing is derived, so the rect of a logicalRect
\* (percentages) is emitted exactly as without the constraint.
C22_KeepAspectRatio ==
  [][(pc = "call" /\ call.fn = "Locator" /\ pc' = "returned"
        /\ Truthy(Constraint(call.props, "keepAspectRatio"))
        /\ ret'.element # Null)
       => LET p == call.props
              c == call.ctx
              r == Constraint(p, "keepAspectRatio")
              rect == ContractRect(p, c)
              w == Get(rect, "width")
              h == Get(rect, "height")
              style == ret'.element.style
          IN /\ (w.t = "number" /\ h.t # "number") =>
                  /\ style["width"] = ContractDim(w)
                  /\ style["height"] = ContractDim(Rat(w.n * r.d, w.d * r.n))
             /\ (h.t = "number" /\ w.t # "number") =>
                  /\ style["height"] = ContractDim(h)
                  /\ style["width"] = ContractDim(Rat(h.n * r.n, h.d * r.d))
             /\ ((w.t = "number") = (h.t = "number")) =>
                  /\ style["width"] = ContractDim(w)
                  /\ style["height"] = ContractDim(h)
                  /\ ret' = Locator([p EXCEPT !.constraints =
                                      [@ EXCEPT !["keepAspectRatio"] =
                                                  Undefined]], c)]_vars

\* the issues of a validation that name a locator
IssuesNaming(issues, id) ==
  {k \in DOMAIN issues :
     issues[k].locatorId = id \/ issues[k].otherLocatorId = id}

\* C23: a Locator whose hidden spec is true at the breakpoint is not
\* visible to the validation: no InvalidRect, OffsetWithoutLogicalSize,
\* ModeConflict or Overlap issue names it; a Locator whose hidden spec is
\* absent or false is visible: in row or column mode its rect or
\* logicalRect at the tier earns it a ModeConflict.
C23_HiddenLocatorNotVisible ==
  Returned("validateSectionLayout") =>
    LET bp == currentBreakpoint(call.width)
        mode == GivenMode(call.mode, bp)
    IN \A i \in DOMAIN call.children :
         LET loc == call.children[i]
             positioned ==
               \/ IsTierKeyed(loc.rect)
                    /\ GivenValue(loc.rect, bp) # Undefined
               \/ IsTierKeyed(loc.logicalRect)
                    /\ GivenValue(loc.logicalRect, bp) # Undefined
         IN /\ ~NotHidden(loc, bp) => IssuesNaming(ret, loc.id) = {}
            /\ (NotHidden(loc, bp) /\ mode \in {"row", "column"}
                  /\ positioned)
                 => \E k \in IssuesNaming(ret, loc.id) :
                      ret[k].type = "ModeConflict"

\* C24: validateSectionLayout returns exactly one InvalidRect warning for
\* each visible locator of a free-mode Section that has no logicalRect and
\* whose rect at the breakpoint lacks width or height, and no InvalidRect
\* for any other locator (one with a logicalRect, one whose rect has both
\* sides, any locator in row or column mode).
C24_InvalidRectPerLocator ==
  Returned("validateSectionLayout") =>
    LET bp == currentBreakpoint(call.width)
        mode == GivenMode(call.mode, bp)
    IN \A i \in DOMAIN call.children :
         LET loc == call.children[i]
             r == GivenValue(loc.rect, bp)
             incomplete ==
               /\ NotHidden(loc, bp)
               /\ mode = "free"
               /\ loc.logicalRect = Undefined
               /\ r # Undefined
               /\ (Get(r, "width") = Undefined \/ Get(r, "height") = Undefined)
             found == {k \in IssuesOfType(ret, "InvalidRect") :
                         ret[k].locatorId = loc.id}
         IN /\ \A k \in found : ret[k].severity = "warning"
            /\ Cardinality(found) = IF incomplete THEN 1 ELSE 0

(***************************************************************************)
(* The passes of a mounted Section whose children carry order props.       *)
(***************************************************************************)
\* the kinds of child: with and without zIndex, with and without order
OrderKinds ==
  {[zIndex |-> Undefined, order |-> Undefined],
   [zIndex |-> Undefined, order |-> Num(0)],
   [zIndex |-> Num(3), order |-> Undefined],
   [zIndex |-> ObjectOf([base |-> Num(1), md |-> Num(5)]), order |-> Num(2)]}

OrderedChildren ==
  UNION {{[i \in 1..n |->
             [LocatorOf(Str(IdNames[i]), Undefined, Undefined, k[i].zIndex,
                        Undefined) EXCEPT !.order = k[i].order]] :
            k \in [1..n -> OrderKinds]} : n \in 0..MaxChildren}

OrderPagings ==
  {[pagingMode |-> "none", pageSize |-> Undefined, lazy |-> TRUE],
   [pagingMode |-> "pages", pageSize |-> Num(2), lazy |-> TRUE],
   [pagingMode |-> "pages", pageSize |-> Num(1), lazy |-> FALSE]}

OrderedSections ==
  {[id |-> Str("s"), mode |-> Undefined, logicalSize |-> Undefined,
    snap |-> Undefined, hidden |-> Undefined, rules |-> <<>>,
    pagingMode |-> p.pagingMode, pageSize |-> p.pageSize,
    defaultPage |-> d, currentPage |-> Undefined, loop |-> TRUE,
    lazy |-> p.lazy, animation |-> "none", children |-> c] :
     p \in OrderPagings, d \in {0, 1}, c \in OrderedChildren}

InitZOrder ==
  /\ pc = "render"
  /\ call = Undefined
  /\ ret = Undefined
  /\ section \in OrderedSections
  /\ viewportWidth = 0
  /\ internalPage = section.defaultPage
  /\ events = <<>>
  /\ queue = <<>>
  /\ emitted = <<>>
  /\ dragging = FALSE
  /\ dragStartX = 0
  /\ dragDeltaX = 0
  /\ timers = {}

SpecZOrder == InitZOrder /\ [][NextSection]_vars

\* the effective zIndex of the i-th child in declaration order: its own
\* zIndex at the tier, else 1 + its position index
ContractZIndex(i) ==
  LET z == GivenValue(section.children[i].zIndex,
                      currentBreakpoint(viewportWidth))
  IN IF z = Undefined THEN 1 + (i - 1) ELSE z.n

\* the declaration position of the child with an id
PositionOf(id) == CHOOSE i \in DOMAIN section.children :
                    section.children[i].id = id

\* C25: when the effective zIndexes of a Section's locators (own zIndex at
\* the breakpoint, else 1 + the position in declaration order) are pairwise
\* distinct, the children the Section hands on are all its locators, in
\* strictly ascending effective zIndex, whatever their order props and the
\* page.
C25_ChildrenSortedByZIndex ==
  [][(pc = "render" /\ pc' # "render"
        /\ \A i, j \in DOMAIN section.children :
             i < j => ContractZIndex(i) # ContractZIndex(j))
       => /\ pc' = "children"
          /\ Len(queue') = Len(section.children)
          /\ {queue'[k].id : k \in DOMAIN queue'}
               = {section.children[i].id : i \in DOMAIN section.children}
          /\ \A k \in 1..(Len(queue') - 1) :
               ContractZIndex(PositionOf(queue'[k].id))
                 < ContractZIndex(PositionOf(queue'[k + 1].id))]_vars

(***************************************************************************)
(* The passes of a mounted Section whose children raise validation issues. *)
(***************************************************************************)
\* the kinds of child: overlapping and touching boxes, an incomplete rect,
\* a child without geometry
IssueKinds ==
  {[logicalRect |-> ObjectOf([base |-> BoxA]), rect |-> Undefined],
   [logicalRect |-> ObjectOf([base |-> BoxB]), rect |-> Undefined],
   [logicalRect |-> ObjectOf([base |-> BoxC, md |-> BoxA]),
    rect |-> Undefined],
   [logicalRect |-> Undefined, rect |-> ObjectOf([base |-> RectNoHeight])],
   [logicalRect |-> Undefined, rect |-> Undefined]}

IssueChildren ==
  UNION {{[i \in 1..n |->
             LocatorOf(Str(IdNames[i]), k[i].logicalRect, k[i].rect,
                       Undefined, Undefined)] :
            k \in [1..n -> IssueKinds]} : n \in 0..MaxChildren}

IssueSections ==
  {[id |-> Str("s"), mode |-> l.mode, logicalSize |-> l.logicalSize,
    snap |-> Undefined, hidden |-> Undefined, rules |-> <<>>,
    pagingMode |-> "none", pageSize |-> Undefined,
    defaultPage |-> 0, currentPage |-> Undefined, loop |-> TRUE,
    lazy |-> TRUE, animation |-> "none", children |-> c] :
     l \in LayoutConfigs, c \in IssueChildren}

InitDispatch ==
  /\ pc = "render"
  /\ call = Undefined
  /\ ret = Undefined
  /\ section \in IssueSections
  /\ viewportWidth = 0
  /\ internalPage = section.defaultPage
  /\ events = <<>>
  /\ queue = <<>>
  /\ emitted = <<>>
  /\ dragging = FALSE
  /\ dragStartX = 0
  /\ dragDeltaX = 0
  /\ timers = {}

SpecDispatch == InitDispatch /\ [][NextSection]_vars

\* the issue list of the pass
PassIssues ==
  validateSectionLayout(
    [sectionId |-> section.id,
     mode |-> SectionMode(section.mode, currentBreakpoint(viewportWidth)),
     logicalSize |-> section.logicalSize, children |-> section.children,
     bp |-> currentBreakpoint(viewportWidth)])

IsOverlap(issue) == issue.type = "Overlap"
IsCollision(e) == e.event = "onLocatorCollision"

\* C26: in a pass, onLayoutValidation is sent once when the issue list is
\* not empty and never when it is empty, carries the whole list, and comes
\* before every onLocatorCollision of the pass; there is one
\* onLocatorCollision per Overlap issue, in the order of the issues, with
\* the two locator ids of its issue.
C26_ValidationBatchThenCollisions ==
  (SectionResolved /\ SectionVisible) =>
    LET overlaps == SelectSeq(PassIssues, IsOverlap)
        collisions == SelectSeq(events, IsCollision)
    IN /\ Emissions("onLayoutValidation")
            = IF PassIssues = <<>> THEN 0 ELSE 1
       /\ \A k \in DOMAIN events :
            /\ events[k].event = "onLayoutValidation"
                 => events[k].issues = PassIssues
            /\ events[k].event = "onLocatorCollision"
                 => \E v \in 1..(k - 1) :
                      events[v].event = "onLayoutValidation"
       /\ Len(collisions) = Len(overlaps)
       /\ \A k \in DOMAIN collisions :
            /\ collisions[k].aId = overlaps[k].locatorId
            /\ collisions[k].bId = overlaps[k].otherLocatorId

\* a committed pass with three mutually overlapping boxes: one batch, then
\* three collisions
C26_Witness ==
  /\ pc = "idle"
  /\ Emissions("onLayoutValidation") = 1
  /\ Emissions("onLocatorCollision") = 3
  /\ events[1].event = "onLayoutValidation"

\* C27: while autoplay is active, a timer tick calls goToPage(c + 1), c the
\* page displayed at the moment of the tick, a manual navigation before
\* the tick included; with loop and an uncontrolled page the displayed
\* page becomes (c + 1) mod totalPages.
C27_TickAdvancesDisplayedPage ==
  [][(pc = "mounted" /\ call'.fn = "setInterval" /\ ContractAutoplay)
       => /\ GoToPageCalls(events') = <<ret.page + 1>>
          /\ (section.loop /\ ~isControlled(section))
               => ret'.page = (ret.page + 1) % ret.pages]_vars

\* the element is marked non-interactive and visually hidden
MarkedHidden(el) ==
  /\ el.style["opacity"] = Num(0)
  /\ el.style["pointerEvents"] = Str("none")

\* C28: in a committed pass of a paged Section that is not slider+slide and
\* has more than one page, at page p with page size s: with lazy the emitted
\* children are exactly those at the indices p*s .. (p+1)*s - 1 of the
\* order-sorted children, and every child belongs to exactly one page;
\* without lazy every child is emitted, and exactly those with
\* floor(index / s) # p have opacity 0 and pointer-events none.
C28_PageChildren ==
  (pc = "idle" /\ isPaged(section) /\ ~isSliderSlide(section)
     /\ totalPages(section) > 1) =>
    LET ordered == sortByOrder(section.children)
        s == effectivePageSize(section)
        p == safePageIndex(section, internalPage)
        onPage(q) == {i \in DOMAIN ordered : q * s <= i - 1 /\ i - 1 < (q + 1) * s}
        ids == {emitted[k].id : k \in DOMAIN emitted}
    IN /\ Cardinality(ids) = Len(emitted)
       /\ section.lazy =>
            /\ ids = {ordered[i].id : i \in onPage(p)}
            /\ \A i \in DOMAIN ordered :
                 Cardinality({q \in 0..(totalPages(section) - 1) :
                                i \in onPage(q)}) = 1
       /\ ~section.lazy =>
            /\ ids = {ordered[i].id : i \in DOMAIN ordered}
            /\ \A i \in DOMAIN ordered, k \in DOMAIN emitted :
                 emitted[k].id = ordered[i].id
                   => (MarkedHidden(emitted[k]) <=> (i - 1) \div s # p)

\* the second page of three children in lazy pages of two: one child
C28_Witness ==
  /\ pc = "idle"
  /\ section.pagingMode = "pages" /\ section.lazy
  /\ Len(section.children) = 3
  /\ section.children[3].order = Num(0)
  /\ safePageIndex(section, internalPage) = 1
  /\ Len(emitted) = 1
  /\ emitted[1].id = section.children[2].id

\* the first of three pages of one child each, not lazy: three children
\* emitted, the two of the other pages hidden
C28_WitnessNotLazy ==
  /\ pc = "idle"
  /\ section.pagingMode = "pages" /\ ~section.lazy
  /\ Len(emitted) = 3
  /\ Cardinality({k \in DOMAIN emitted : MarkedHidden(emitted[k])}) = 2

(***************************************************************************)
(* The passes of a free-mode Section with a LogicalSize and a snap grid.   *)
(***************************************************************************)
\* boxes of height 10 next to one another on x, some off the grid of 10
SnapBoxes ==
  {LogicalRectOf(0, 0, 10, 10), LogicalRectOf(6, 0, 6, 10),
   LogicalRectOf(13, 0, 6, 10), LogicalRectOf(20, 0, 10, 10)}

SnappedChildren ==
  UNION {{[i \in 1..n |->
             LocatorOf(Str(IdNames[i]), ObjectOf([base |-> k[i]]), Undefined,
                       Undefined, Undefined)] :
            k \in [1..n -> SnapBoxes]} : n \in 0..MaxChildren}

SectionSnaps ==
  {Undefined, Num(10), SnapConfigOf(Num(10), Str("soft"), Str("x"), Num(2)),
   SnapConfigOf(Num(10), Undefined, Str("y"), Undefined)}

SnappedSections ==
  {[id |-> Str("s"), mode |-> Str("free"),
    logicalSize |-> LogicalSizeOf(100, 100),
    snap |-> sn, hidden |-> Undefined, rules |-> <<>>,
    pagingMode |-> "none", pageSize |-> Undefined,
    defaultPage |-> 0, currentPage |-> Undefined, loop |-> TRUE,
    lazy |-> TRUE, animation |-> "none", children |-> c] :
     sn \in SectionSnaps, c \in SnappedChildren}

InitSnapped ==
  /\ pc = "render"
  /\ call = Undefined
  /\ ret = Undefined
  /\ section \in SnappedSections
  /\ viewportWidth = 0
  /\ internalPage = section.defaultPage
  /\ events = <<>>
  /\ queue = <<>>
  /\ emitted = <<>>
  /\ dragging = FALSE
  /\ dragStartX = 0
  /\ dragDeltaX = 0
  /\ timers = {}

SpecSnapped == InitSnapped /\ [][NextSection]_vars

\* a < b and a + b on the numbers of two CSS percentages
RatLess(a, b) == a.n * b.d < b.n * a.d
RatSum(a, b) == Rat(a.n * b.d + b.n * a.d, a.d * b.d)

\* the extents of two emitted elements intersect along an axis
Intersect(a, b, start, extent) ==
  /\ RatLess(a.style[start], RatSum(b.style[start], b.style[extent]))
  /\ RatLess(b.style[start], RatSum(a.style[start], a.style[extent]))

\* validation reported an Overlap of the two locators
OverlapReported(idA, idB) ==
  \E k \in IssuesOfType(PassIssues, "Overlap") :
    {PassIssues[k].locatorId, PassIssues[k].otherLocatorId} = {idA, idB}

\* C29: in a committed pass of a free-mode Section with a LogicalSize,
\* whatever its snap configuration, two emitted logicalRect locators for
\* which validation reported no Overlap have rectangles with no common
\* area.
C29_NoOverlapMeansDisjoint ==
  pc = "idle" =>
    \A i, j \in DOMAIN emitted :
      (i < j /\ ~OverlapReported(emitted[i].id, emitted[j].id))
        => ~(Intersect(emitted[i], emitted[j], "left", "width")
               /\ Intersect(emitted[i], emitted[j], "top", "height"))

(***************************************************************************)
(* The track of a slider with the slide animation: one slide per child,    *)
(* each as wide as the track, the track moved by its own width per page.   *)
(***************************************************************************)
\* slides.length || 1
slideCount(props) ==
  IF Len(props.children) = 0 THEN 1 ELSE Len(props.children)

\* -safePageIndex * 100: the track is moved left by so many slides
basePercent(props, page) == 0 - safePageIndex(props, page) * 100

\* the pages navigation can reach: what goToPage can target
ReachablePages == 0..(ret.pages - 1)

\* C30: in a mounted slider with the slide animation and more than one
\* page, the number of pages is the number of slides of the track, and
\* every child's slide is the one displayed at some reachable page.
C30_EverySlideReachable ==
  (pc = "mounted" /\ isPaged(section) /\ isSliderSlide(section)
     /\ ret.pages > 1) =>
    /\ ret.pages = slideCount(section)
    /\ \A k \in 0..(Len(section.children) - 1) :
         \E q \in ReachablePages :
           basePercent(section, q) = 0 - k * 100

====
